---- MODULE Spec2Model ----
(***************************************************************************)
(* A model of txrho's deferred-aware template engine (txrho/template.py):  *)
(* the recursive-descent parser _parse, the code generation of Template    *)
(* (with the node classes it takes from cyclone.template), the Loader and  *)
(* its cache, and Template.generate.                                       *)
(*                                                                         *)
(* Text is modelled character by character: a Python string is a sequence  *)
(* of one-character strings, and offsets are 0-based as in Python.         *)
(***************************************************************************)
EXTENDS Integers, Sequences, FiniteSets, TLC

VARIABLES
    src,        \* Template.__init__: template_string
    tname,      \* Template.__init__: name (the name of the template generate() ran)
    ps,         \* the state of _parse over the reader (position, line, open blocks)
    tpl,        \* the constructed Template (or the exception __init__ raised)
    out,        \* the result of the Deferred returned by Template.generate
    files,      \* the file system: absolute path -> contents
    templates,  \* Loader.templates, the cache
    lastLoad,   \* what the last Loader.load call did (result, files opened)
    nextId,     \* identity of the next Template object constructed
    renders,    \* in-flight generate() calls of one compiled Template
    rcode,      \* the compiled code the in-flight generate() calls execute
    np,         \* a call of oursql.util.named_params: its arguments, then its outcome
    pool,       \* an oursql ConnectionPool, the clock, and what its last call did
    sp,         \* a xapian SearchPool, its threads, the reactor's triggers, the clock
    rpc         \* a JSON-RPC call: the request, the handler's response, the proxy's Deferred

parseVars  == <<src, tname, ps, tpl, out>>
loaderVars == <<files, templates, lastLoad, nextId>>
renderVars == <<renders, rcode>>
otherVars  == <<np, pool, sp, rpc>>
vars == <<src, tname, ps, tpl, out, files, templates, lastLoad, nextId, renders, rcode,
          np, pool, sp, rpc>>

(***************************************************************************)
(* Python strings                                                          *)
(***************************************************************************)
NoStr == <<>>

SetMin(S) == CHOOSE x \in S : \A y \in S : x <= y

\* s[a:b]
Slice(s, a, b) == IF b <= a THEN <<>> ELSE SubSeq(s, a + 1, IF b > Len(s) THEN Len(s) ELSE b)

\* s.startswith(p)
StartsWith(s, p) == Len(p) <= Len(s) /\ SubSeq(s, 1, Len(p)) = p

\* s.endswith(p)
EndsWith(s, p) == Len(p) <= Len(s) /\ SubSeq(s, Len(s) - Len(p) + 1, Len(s)) = p

\* s.find(needle, a, b)
StrFind(s, needle, a, b) ==
    LET hi   == (IF b > Len(s) THEN Len(s) ELSE b) - Len(needle)
        cand == {i \in a..hi : SubSeq(s, i + 1, i + Len(needle)) = needle}
    IN  IF cand = {} THEN -1 ELSE SetMin(cand)

\* s.count("\n", a, b)
CountNewlines(s, a, b) == Cardinality({i \in (a + 1)..b : i <= Len(s) /\ s[i] = "\n"})

IsSpace(c) == c \in {" ", "\n", "\t"}

RECURSIVE LStrip(_)
LStrip(s) == IF s # <<>> /\ IsSpace(Head(s)) THEN LStrip(Tail(s)) ELSE s

RECURSIVE RStrip(_)
RStrip(s) == IF s # <<>> /\ IsSpace(s[Len(s)]) THEN RStrip(SubSeq(s, 1, Len(s) - 1)) ELSE s

\* s.strip()
Strip(s) == RStrip(LStrip(s))

RECURSIVE LStripChar(_, _)
LStripChar(s, c) == IF s # <<>> /\ Head(s) = c THEN LStripChar(Tail(s), c) ELSE s

RECURSIVE RStripChar(_, _)
RStripChar(s, c) ==
    IF s # <<>> /\ s[Len(s)] = c THEN RStripChar(SubSeq(s, 1, Len(s) - 1), c) ELSE s

\* s.strip(c)
StripChar(s, c) == RStripChar(LStripChar(s, c), c)

\* s.partition(" "): the part before the first space and the part after it
PartitionHead(s) ==
    LET i == StrFind(s, <<" ">>, 0, Len(s)) IN IF i = -1 THEN s ELSE Slice(s, 0, i)

PartitionTail(s) ==
    LET i == StrFind(s, <<" ">>, 0, Len(s)) IN IF i = -1 THEN <<>> ELSE Slice(s, i + 1, Len(s))

(***************************************************************************)
(* _TemplateReader: the text is src, the cursor is (pos, line)             *)
(***************************************************************************)
\* reader.find(needle, start, end), end relative to the cursor
ReaderFind(text, pos, needle, start, end) ==
    LET index == StrFind(text, needle, start + pos, end + pos)
    IN  IF index # -1 THEN index - pos ELSE -1

\* reader.find(needle, start)
ReaderFindFrom(text, pos, needle, start) ==
    LET index == StrFind(text, needle, start + pos, Len(text))
    IN  IF index # -1 THEN index - pos ELSE -1

\* reader.remaining()
Remaining(text, pos) == Len(text) - pos

\* reader.consume(count): the new line number
ConsumeLine(text, pos, line, count) == line + CountNewlines(text, pos, pos + count)

(***************************************************************************)
(* The syntax tree: every node is a record [kind, arg, body, tn]           *)
(***************************************************************************)
Node(kind, arg, body, tn) == [kind |-> kind, arg |-> arg, body |-> body, tn |-> tn]

Text(value)                    == Node("Text", value, <<>>, NoStr)
Expression(expression)         == Node("Expression", expression, <<>>, NoStr)
YieldBlock(expression)         == Node("Yield", expression, <<>>, NoStr)
Statement(statement)           == Node("Statement", statement, <<>>, NoStr)
IntermediateControlBlock(stmt) == Node("Intermediate", stmt, <<>>, NoStr)
ExtendsBlock(name)             == Node("Extends", name, <<>>, NoStr)
IncludeBlock(name, readerName) == Node("Include", name, <<>>, readerName)
ApplyBlock(method, body)       == Node("Apply", method, body, NoStr)
NamedBlock(name, body)         == Node("NamedBlock", name, body, NoStr)
ControlBlock(statement, body)  == Node("Control", statement, body, NoStr)

(***************************************************************************)
(* _parse(reader, in_block)                                                *)
(***************************************************************************)
W_if      == <<"i", "f">>
W_for     == <<"f", "o", "r">>
W_while   == <<"w", "h", "i", "l", "e">>
W_try     == <<"t", "r", "y">>
W_apply   == <<"a", "p", "p", "l", "y">>
W_block   == <<"b", "l", "o", "c", "k">>
W_else    == <<"e", "l", "s", "e">>
W_elif    == <<"e", "l", "i", "f">>
W_except  == <<"e", "x", "c", "e", "p", "t">>
W_finally == <<"f", "i", "n", "a", "l", "l", "y">>
W_end     == <<"e", "n", "d">>
W_extends == <<"e", "x", "t", "e", "n", "d", "s">>
W_include == <<"i", "n", "c", "l", "u", "d", "e">>
W_set     == <<"s", "e", "t">>
W_import  == <<"i", "m", "p", "o", "r", "t">>
W_comment == <<"c", "o", "m", "m", "e", "n", "t">>
W_yield   == <<"y", "i", "e", "l", "d">>

\* intermediate_blocks: operator -> allowed parents
IntermediateOps == {W_else, W_elif, W_except, W_finally}

\* AllowedParents with "else" also attached to "try"
AllowedParentsElseInTry(operator) ==
    CASE operator = W_else    -> {W_if, W_for, W_while, W_try}
      [] operator = W_elif    -> {W_if}
      [] operator = W_except  -> {W_try}
      [] operator = W_finally -> {W_try}

AllowedParents(operator) ==
    CASE operator = W_else    -> {W_if, W_for, W_while}
      [] operator = W_elif    -> {W_if}
      [] operator = W_except  -> {W_try}
      [] operator = W_finally -> {W_try}

LeafOps == {W_extends, W_include, W_set, W_import, W_comment, W_yield}

NestingOps == {W_apply, W_block, W_try, W_if, W_for, W_while}

\* A ParseError: which raise statement, the %s it formats, the %d line (NoLine: none)
NoLine == -1
NoErr  == [type |-> "none", kind |-> "none", what |-> NoStr, line |-> NoLine]
ParseError(kind, what, line) ==
    [type |-> "ParseError", kind |-> kind, what |-> what, line |-> line]

\* "yield inside {% apply %} on line %d" % line: the "% a" of "{% apply" is read
\* as a conversion, and Python 2 has no conversion "a"
FormatError ==
    [type |-> "ValueError", kind |-> "unsupported format character", what |-> NoStr,
     line |-> NoLine]

\* One activation of _parse: its in_block, its body so far, and the opening tag
\* the caller is holding (operator = in_block, suffix, contents, line)
Frame(in_block, suffix, contents, line) ==
    [in_block |-> in_block, chunks |-> <<>>, suffix |-> suffix,
     contents |-> contents, line |-> line]

\* _TemplateReader(name, template_string) and the call _parse(reader)
ParseInit ==
    [pos |-> 0, line |-> 0, stack |-> <<Frame(NoStr, NoStr, NoStr, 0)>>,
     status |-> "run", err |-> NoErr]

\* body.chunks.append(chunk) in the innermost activation
AppendTop(stack, chunk) ==
    [stack EXCEPT ![Len(stack)].chunks = Append(@, chunk)]

\* The inner while loop: the offset of the next "{{" or "{%", or -1 at EOF
RECURSIVE ScanCurly(_, _, _)
ScanCurly(text, pos, from) ==
    LET curly == ReaderFindFrom(text, pos, <<"{">>, from)
    IN  IF curly = -1 \/ curly + 1 = Remaining(text, pos)
        THEN -1
        ELSE IF text[pos + curly + 2] \notin {"{", "%"}
             THEN ScanCurly(text, pos, curly + 1)
             ELSE curly

ParseFail(p, pos, line, stack, err) ==
    [p EXCEPT !.pos = pos, !.line = line, !.stack = stack, !.status = "error", !.err = err]

\* ParseGo with a reader that does not move
ParseGoInPlace(p, pos, line, stack) ==
    [p EXCEPT !.line = line, !.stack = stack]

ParseGo(p, pos, line, stack) ==
    [p EXCEPT !.pos = pos, !.line = line, !.stack = stack]

\* "yield" in the leaf-operator branch: the check against the enclosing block
YieldRejected(in_block) == in_block # NoStr /\ in_block = W_apply

\* The leaf-operator branch ("extends", "include", "set", "import", "yield"):
\* the exception it raises, or NoErr
LeafError(operator, suffix, in_block, line) ==
    LET unq == StripChar(StripChar(suffix, "\""), "'")
    IN  CASE operator = W_extends /\ unq = NoStr    -> ParseError("extends missing file path", NoStr, line)
          [] operator = W_import /\ suffix = NoStr  -> ParseError("import missing statement", NoStr, line)
          [] operator = W_include /\ unq = NoStr    -> ParseError("include missing file path", NoStr, line)
          [] operator = W_set /\ suffix = NoStr     -> ParseError("set missing statement", NoStr, line)
          [] operator = W_yield /\ suffix = NoStr   -> ParseError("yield missing statement", NoStr, line)
          [] operator = W_yield /\ suffix # NoStr /\ YieldRejected(in_block)
                                                    -> FormatError
          [] OTHER                                  -> NoErr

\* The leaf-operator branch: the node it appends
LeafNode(operator, suffix, contents, readerName) ==
    LET unq == StripChar(StripChar(suffix, "\""), "'")
    IN  CASE operator = W_extends -> ExtendsBlock(unq)
          [] operator = W_import  -> Statement(contents)
          [] operator = W_include -> IncludeBlock(unq, readerName)
          [] operator = W_set     -> Statement(suffix)
          [] operator = W_yield   -> YieldBlock(contents)

\* After the recursive _parse returned (its "end" tag): the ParseError of the
\* nesting branch, or NoErr
NestError(fr) ==
    CASE fr.in_block = W_apply /\ fr.suffix = NoStr -> ParseError("apply missing method name", NoStr, fr.line)
      [] fr.in_block = W_block /\ fr.suffix = NoStr -> ParseError("block missing name", NoStr, fr.line)
      [] OTHER                                      -> NoErr

\* After the recursive _parse returned: the composite node
NestNode(fr) ==
    CASE fr.in_block = W_apply -> ApplyBlock(fr.suffix, fr.chunks)
      [] fr.in_block = W_block -> NamedBlock(fr.suffix, fr.chunks)
      [] OTHER                 -> ControlBlock(fr.contents, fr.chunks)

\* ParseReturn passing over an "end" tag that closes nothing
ParseReturnLenient(p, pos, line, stack, fr) ==
    IF fr.in_block = NoStr
    THEN ParseGo(p, pos, line, stack)
    ELSE IF NestError(fr) # NoErr
    THEN ParseFail(p, pos, line, SubSeq(stack, 1, Len(stack) - 1), NestError(fr))
    ELSE ParseGo(p, pos, line, AppendTop(SubSeq(stack, 1, Len(stack) - 1), NestNode(fr)))

\* The "end" tag with the innermost activation fr: return body to the caller,
\* which wraps it and appends it
ParseReturn(p, pos, line, stack, fr) ==
    IF fr.in_block = NoStr
    THEN ParseFail(p, pos, line, stack, ParseError("Extra end block", NoStr, line))
    ELSE IF NestError(fr) # NoErr
    THEN ParseFail(p, pos, line, SubSeq(stack, 1, Len(stack) - 1), NestError(fr))
    ELSE ParseGo(p, pos, line, AppendTop(SubSeq(stack, 1, Len(stack) - 1), NestNode(fr)))

ParseEnd(p, pos, line, stack) == ParseReturn(p, pos, line, stack, stack[Len(stack)])

\* The operator dispatch of a "{% ... %}" tag
ParseOperator(p, pos, line, stack, contents, readerName, operator, suffix, in_block) ==
    IF operator \in IntermediateOps
    THEN IF in_block = NoStr
         THEN ParseFail(p, pos, line, stack, ParseError("outside block", operator, NoLine))
         ELSE IF in_block \notin AllowedParents(operator)
              THEN ParseFail(p, pos, line, stack,
                             ParseError("cannot be attached", operator, NoLine))
              ELSE ParseGo(p, pos, line,
                           AppendTop(stack, IntermediateControlBlock(contents)))
    ELSE IF operator = W_end
    THEN ParseEnd(p, pos, line, stack)
    ELSE IF operator \in LeafOps
    THEN IF operator = W_comment
         THEN ParseGo(p, pos, line, stack)
         ELSE IF LeafError(operator, suffix, in_block, line) # NoErr
              THEN ParseFail(p, pos, line, stack,
                             LeafError(operator, suffix, in_block, line))
              ELSE ParseGo(p, pos, line,
                           AppendTop(stack, LeafNode(operator, suffix, contents, readerName)))
    ELSE IF operator \in NestingOps
    THEN ParseGo(p, pos, line, Append(stack, Frame(operator, suffix, contents, line)))
    ELSE ParseFail(p, pos, line, stack, ParseError("unknown operator", operator, NoLine))

\* A "{% ... %}" tag whose contents are read: contents.partition(" ")
ParseBlockTag(p, pos, line, stack, contents, readerName) ==
    ParseOperator(p, pos, line, stack, contents, readerName,
                  PartitionHead(contents), Strip(PartitionTail(contents)),
                  stack[Len(stack)].in_block)

\* The directive at pos2 (after its opening brace) closes `end` characters on
ParseDirective(p, text, readerName, stack1, start_brace, pos2, line, end) ==
    IF end = -1 \/ ReaderFind(text, pos2, <<"\n">>, 0, end) # -1
    THEN ParseFail(p, pos2, line, stack1,
                   ParseError(IF start_brace = <<"{", "{">>
                              THEN "Missing end expression"
                              ELSE "Missing end block %}", NoStr, line))
    ELSE IF Strip(Slice(text, pos2, pos2 + end)) = NoStr
    THEN ParseFail(p, pos2 + end + 2, line, stack1,
                   ParseError(IF start_brace = <<"{", "{">>
                              THEN "Empty expression"
                              ELSE "Empty block tag", NoStr, line))
    ELSE IF start_brace = <<"{", "{">>
    THEN ParseGo(p, pos2 + end + 2, line,
                 AppendTop(stack1, Expression(Strip(Slice(text, pos2, pos2 + end)))))
    ELSE ParseBlockTag(p, pos2 + end + 2, line, stack1,
                       Strip(Slice(text, pos2, pos2 + end)), readerName)

\* The special token found at offset curly: the text before it, its two braces
ParseToken(p, text, readerName, curly, start_brace) ==
    ParseDirective(p, text, readerName,
                   IF curly > 0
                   THEN AppendTop(p.stack, Text(Slice(text, p.pos, p.pos + curly)))
                   ELSE p.stack,
                   start_brace, p.pos + curly + 2,
                   ConsumeLine(text, p.pos, p.line, curly + 2),
                   ReaderFindFrom(text, p.pos + curly + 2,
                                  IF start_brace = <<"{", "{">>
                                  THEN <<"}", "}">> ELSE <<"%", "}">>, 0))

\* ParseEOF without the check of in_block
ParseEOFUnchecked(p, text, in_block) ==
    [p EXCEPT !.pos = Len(text),
              !.line = ConsumeLine(text, p.pos, p.line, Remaining(text, p.pos)),
              !.stack = AppendTop(p.stack, Text(Slice(text, p.pos, Len(text)))),
              !.status = "ok"]

\* EOF in the innermost activation
ParseEOF(p, text, in_block) ==
    IF in_block # NoStr
    THEN ParseFail(p, p.pos, p.line, p.stack, ParseError("Missing end block", in_block, NoLine))
    ELSE [p EXCEPT !.pos = Len(text),
                   !.line = ConsumeLine(text, p.pos, p.line, Remaining(text, p.pos)),
                   !.stack = AppendTop(p.stack, Text(Slice(text, p.pos, Len(text)))),
                   !.status = "ok"]

ParseAt(p, text, readerName, curly) ==
    IF curly = -1
    THEN ParseEOF(p, text, p.stack[Len(p.stack)].in_block)
    ELSE ParseToken(p, text, readerName, curly,
                    Slice(text, p.pos + curly, p.pos + curly + 2))

\* One iteration of the outer while loop of the innermost activation of _parse
ParseStep(text, readerName, p) == ParseAt(p, text, readerName, ScanCurly(text, p.pos, 0))

\* _parse(reader) run to its return or its ParseError
RECURSIVE ParseAll(_, _, _)
ParseAll(text, readerName, p) ==
    IF p.status # "run" THEN p ELSE ParseAll(text, readerName, ParseStep(text, readerName, p))

\* The _ChunkList a finished top-level _parse returned
ParsedBody(p) == p.stack[1].chunks

(***************************************************************************)
(* os.path on POSIX, for absolute roots                                    *)
(***************************************************************************)
Slash == <<"/">>

\* os.path.join(a, b)
PathJoin(a, b) ==
    IF StartsWith(b, Slash) THEN b
    ELSE IF a = NoStr \/ EndsWith(a, Slash) THEN a \o b
    ELSE a \o Slash \o b

\* p.split("/")
RECURSIVE SplitSlash(_)
SplitSlash(p) ==
    LET i == StrFind(p, Slash, 0, Len(p))
    IN  IF i = -1 THEN <<p>> ELSE <<Slice(p, 0, i)>> \o SplitSlash(Slice(p, i + 1, Len(p)))

\* The component loop of os.path.normpath for an absolute path
RECURSIVE NormComps(_, _)
NormComps(comps, acc) ==
    IF comps = <<>> THEN acc
    ELSE LET c == Head(comps)
         IN  IF c = NoStr \/ c = <<".">>
             THEN NormComps(Tail(comps), acc)
             ELSE IF c = <<".", ".">>
             THEN NormComps(Tail(comps),
                            IF acc = <<>> THEN acc ELSE SubSeq(acc, 1, Len(acc) - 1))
             ELSE NormComps(Tail(comps), Append(acc, c))

RECURSIVE JoinSlash(_)
JoinSlash(comps) ==
    IF comps = <<>> THEN NoStr ELSE Slash \o Head(comps) \o JoinSlash(Tail(comps))

\* os.path.abspath(p) of an absolute p: os.path.normpath(p)
AbsPath(p) ==
    LET comps == NormComps(SplitSlash(p), <<>>)
    IN  IF comps = <<>> THEN Slash ELSE JoinSlash(comps)

\* The index after the last "/" of p
RECURSIVE LastSlash(_, _)
LastSlash(p, i) == IF i = 0 THEN 0 ELSE IF p[i] = "/" THEN i ELSE LastSlash(p, i - 1)

\* os.path.dirname(p)
DirName(p) ==
    LET head == Slice(p, 0, LastSlash(p, Len(p)))
    IN  IF head # NoStr /\ RStripChar(head, "/") # NoStr THEN RStripChar(head, "/") ELSE head

(***************************************************************************)
(* The Loader's state while a call runs, exceptions, Template objects      *)
(***************************************************************************)
Root == <<"/", "r">>

NoExc == [type |-> "none", err |-> NoErr]
Exc(type) == [type |-> type, err |-> NoErr]
ParseExc(err) == [type |-> err.type, err |-> err]

NoTemplate == [id |-> 0, name |-> NoStr, file |-> <<>>, code |-> <<>>]

\* has: a loader was given (loader is not None); files: the file system;
\* templates: Loader.templates; opened: the paths given to open() so far;
\* depth: nested Loader.load calls on the Python stack; exc: the exception
\* being raised; ret: the Template the last call returned
NoLoader ==
    [has |-> FALSE, files |-> <<>>, templates |-> <<>>, opened |-> <<>>, nextId |-> 1,
     depth |-> 0, exc |-> NoExc, ret |-> NoTemplate]

Raise(L, exc) == [L EXCEPT !.exc = exc, !.ret = NoTemplate]

(***************************************************************************)
(* _CodeWriter and the generate methods of the nodes                       *)
(***************************************************************************)
Line(ind, op, arg) == [ind |-> ind, op |-> op, arg |-> arg]

\* _CodeWriter(buffer, named_blocks, loader, self, compress_whitespace)
CodeWriter(nb, L, cw) ==
    [lines |-> <<>>, indent |-> 0, inline_callbacks |-> FALSE, apply_counter |-> 0,
     named_blocks |-> nb, compress_whitespace |-> cw, L |-> L]

\* writer.write_line(line)
WriteLine(g, op, arg) == [g EXCEPT !.lines = Append(@, Line(g.indent, op, arg))]

\* writer.write_line(line, indent)
WriteLineAt(g, ind, op, arg) == [g EXCEPT !.lines = Append(@, Line(ind, op, arg))]

Indent(g) == [g EXCEPT !.indent = @ + 1]
Dedent(g) == [g EXCEPT !.indent = @ - 1]

Contains(s, needle) == StrFind(s, needle, 0, Len(s)) # -1

\* The length of the whitespace run s starts with
RECURSIVE SpaceRun(_)
SpaceRun(s) == IF s # <<>> /\ IsSpace(Head(s)) THEN 1 + SpaceRun(Tail(s)) ELSE 0

\* _Text.generate: re.sub("([\t ]+)", " ", value), then re.sub("(\s*\n\s*)", "\n", .):
\* a whitespace run with a newline becomes "\n", another one becomes " "
RECURSIVE CompressWhitespace(_)
CompressWhitespace(s) ==
    IF s = <<>> THEN <<>>
    ELSE LET n == SpaceRun(s)
         IN  IF n = 0 THEN <<Head(s)>> \o CompressWhitespace(Tail(s))
             ELSE (IF Contains(SubSeq(s, 1, n), <<"\n">>) THEN <<"\n">> ELSE <<" ">>)
                  \o CompressWhitespace(SubSeq(s, n + 1, Len(s)))

\* TextGenerate compressing whatever writer.compress_whitespace says
TextGenerateAlwaysCompress(g, value) ==
    IF CompressWhitespace(value) # NoStr
    THEN WriteLine(g, "append", CompressWhitespace(value))
    ELSE g

\* _Text.generate
TextGenerate(g, value) ==
    LET v == IF g.compress_whitespace /\ ~Contains(value, <<"<", "p", "r", "e", ">">>)
             THEN CompressWhitespace(value)
             ELSE value
    IN  IF v # NoStr THEN WriteLine(g, "append", v) ELSE g

\* _Expression.generate: "_tmp = <expression>", then the if/elif/else that appends it
ExpressionGenerate(g, expression) ==
    WriteLine(WriteLine(g, "tmp", expression), "append_tmp", NoStr)

\* _YieldBlock.generate
YieldGenerate(g, expression) ==
    [ExpressionGenerate(g, expression) EXCEPT !.inline_callbacks = TRUE]

(***************************************************************************)
(* Loader.load, Template.__init__ and the generation they share            *)
(***************************************************************************)
\* The nesting of Loader.load calls at which Python raises RuntimeError
\* (maximum recursion depth exceeded)
MaxCallDepth == 3

\* Loader.load: the name the cache is keyed by
ResolveName(root, name, parent_path) ==
    IF /\ parent_path # NoStr
       /\ ~StartsWith(parent_path, <<"<">>)
       /\ ~StartsWith(parent_path, Slash)
       /\ ~StartsWith(name, Slash)
    THEN LET current_path  == PathJoin(root, parent_path)
             file_dir      == DirName(AbsPath(current_path))
             relative_path == AbsPath(PathJoin(file_dir, name))
         IN  IF StartsWith(relative_path, root)
             THEN Slice(relative_path, Len(root) + 1, Len(relative_path))
             ELSE name
    ELSE name

\* Template.__init__: compress_whitespace is None
CompressDefault(name) ==
    EndsWith(name, <<".", "h", "t", "m", "l">>) \/ EndsWith(name, <<".", "j", "s">>)

Reverse(seq) == [i \in 1..Len(seq) |-> seq[Len(seq) + 1 - i]]

\* The lines of the body of the "def" at line i: up to its return at indent + 1
DefEnd(lines, i) ==
    SetMin({j \in (i + 1)..Len(lines) :
              lines[j].ind = lines[i].ind + 1 /\ lines[j].op \in {"return", "returnValue"}})

\* "_tmp = yield ..." makes the enclosing def a generator
IsYieldLine(line) == line.op = "tmp" /\ PartitionHead(line.arg) = W_yield

\* The yield at line k belongs to the def at line i (and to no def nested in it)
YieldOf(lines, i, k) ==
    /\ i < k /\ k < DefEnd(lines, i)
    /\ IsYieldLine(lines[k])
    /\ ~\E m \in (i + 1)..(k - 1) :
           lines[m].op = "def_apply" /\ k < DefEnd(lines, m)

\* compile(self.code, self.name, "exec") of Python 2, as far as the shape of the
\* generated code decides it: a generator may not return a value, and the suite
\* of every def and control statement is not empty. The expressions and
\* statements of the template are taken to be valid Python.
CompileOk(lines) ==
    /\ \A i \in 1..Len(lines) :
          lines[i].op \in {"def_execute", "def_apply"} =>
              ~ (/\ lines[DefEnd(lines, i)].op = "return"
                 /\ \E k \in (i + 1)..Len(lines) : YieldOf(lines, i, k))
    /\ \A i \in 1..Len(lines) :
          lines[i].op = "ctl" => i < Len(lines) /\ lines[i + 1].ind > lines[i].ind

RECURSIVE LoadOp(_, _, _)
RECURSIVE TemplateInit(_, _, _)
RECURSIVE GetAncestors(_, _, _)
RECURSIVE AncestorsLoop(_, _, _, _)
RECURSIVE FindNamedBlocks(_, _)
RECURSIVE GenChunks(_, _)

\* _get_ancestors: ancestors.extend(template._get_ancestors(loader)), next chunk
AncestorsExtend(r, chunks, name, acc) ==
    AncestorsLoop(r.L, Tail(chunks), name, acc \o r.anc)

\* _get_ancestors: template = loader.load(chunk.name, self.name) returned L1
AncestorsLoaded(L1, chunks, name, acc) ==
    IF L1.exc # NoExc THEN [L |-> L1, anc |-> acc]
    ELSE AncestorsExtend(GetAncestors(L1, L1.ret.file, L1.ret.name), chunks, name, acc)

\* The loop of _get_ancestors over self.file.body.chunks
AncestorsLoop(L, chunks, name, acc) ==
    IF L.exc # NoExc \/ chunks = <<>> THEN [L |-> L, anc |-> acc]
    ELSE IF Head(chunks).kind # "Extends"
    THEN AncestorsLoop(L, Tail(chunks), name, acc)
    ELSE IF ~L.has
    THEN [L |-> Raise(L, ParseExc(ParseError("extends without loader", NoStr, NoLine))),
          anc |-> acc]
    ELSE AncestorsLoaded(LoadOp(L, Head(chunks).arg, name), chunks, name, acc)

\* Template._get_ancestors(loader) of the template (file, name): [L, anc]
GetAncestors(L, file, name) == AncestorsLoop(L, file, name, <<file>>)

\* _IncludeBlock.find_named_blocks: included = loader.load(...) returned L1
IncludedBlocks(S, L1) ==
    IF L1.exc # NoExc THEN [S EXCEPT !.L = L1]
    ELSE FindNamedBlocks([S EXCEPT !.L = L1], L1.ret.file)

\* NodeNamedBlocks keeping the first block registered under a name
NodeNamedBlocksFirstWins(S, c) ==
    CASE c.kind = "NamedBlock" ->
             FindNamedBlocks([S EXCEPT !.nb = @ @@ (c.arg :> c.body)], c.body)
      [] c.kind \in {"Apply", "Control"} -> FindNamedBlocks(S, c.body)
      [] c.kind = "Include" ->
             IF ~S.L.has THEN [S EXCEPT !.L = Raise(@, Exc("AttributeError"))]
             ELSE IncludedBlocks(S, LoadOp(S.L, c.arg, c.tn))
      [] OTHER -> S

\* find_named_blocks of one node; S is [L, nb]
NodeNamedBlocks(S, c) ==
    CASE c.kind = "NamedBlock" ->
             FindNamedBlocks([S EXCEPT !.nb = (c.arg :> c.body) @@ @], c.body)
      [] c.kind \in {"Apply", "Control"} -> FindNamedBlocks(S, c.body)
      [] c.kind = "Include" ->
             IF ~S.L.has THEN [S EXCEPT !.L = Raise(@, Exc("AttributeError"))]
             ELSE IncludedBlocks(S, LoadOp(S.L, c.arg, c.tn))
      [] OTHER -> S

\* _Node.find_named_blocks over a _ChunkList
FindNamedBlocks(S, chunks) ==
    IF S.L.exc # NoExc \/ chunks = <<>> THEN S
    ELSE FindNamedBlocks(NodeNamedBlocks(S, Head(chunks)), Tail(chunks))

\* _ApplyBlock.generate
ApplyGenerate(g, node) ==
    WriteLine(
        Dedent(WriteLine(
            GenChunks(WriteLine(Indent(WriteLine([g EXCEPT !.apply_counter = @ + 1],
                                                 "def_apply", g.apply_counter)),
                                "buffer", NoStr),
                      node.body),
            "return", NoStr)),
        "apply_call", node.arg)

\* _ControlBlock.generate
ControlGenerate(g, node) ==
    Dedent(GenChunks(Indent(WriteLine(g, "ctl", node.arg)), node.body))

\* _IntermediateControlBlock.generate
IntermediateGenerate(g, node) == WriteLineAt(g, g.indent - 1, "ctl", node.arg)

\* _NamedBlock.generate
NamedBlockGenerate(g, node) ==
    IF node.arg \in DOMAIN g.named_blocks
    THEN GenChunks(g, g.named_blocks[node.arg])
    ELSE [g EXCEPT !.L = Raise(@, Exc("KeyError"))]

\* IncludedGenerate with every include marking the including template as
\* asynchronous, whatever the included body holds
IncludedGenerateMarks(g, L1) ==
    IF L1.exc # NoExc THEN [g EXCEPT !.L = L1]
    ELSE [GenChunks([g EXCEPT !.L = L1], L1.ret.file) EXCEPT !.inline_callbacks = TRUE]

\* _IncludeBlock.generate: included = writer.loader.load(...) returned L1
IncludedGenerate(g, L1) ==
    IF L1.exc # NoExc THEN [g EXCEPT !.L = L1]
    ELSE GenChunks([g EXCEPT !.L = L1], L1.ret.file)

\* _IncludeBlock.generate
IncludeGenerate(g, node) ==
    IF ~g.L.has THEN [g EXCEPT !.L = Raise(@, Exc("AttributeError"))]
    ELSE IncludedGenerate(g, LoadOp(g.L, node.arg, node.tn))

\* chunk.generate(writer)
GenNode(g, node) ==
    CASE node.kind = "Text"         -> TextGenerate(g, node.arg)
      [] node.kind = "Expression"   -> ExpressionGenerate(g, node.arg)
      [] node.kind = "Yield"        -> YieldGenerate(g, node.arg)
      [] node.kind = "Statement"    -> WriteLine(g, "stmt", node.arg)
      [] node.kind = "Control"      -> ControlGenerate(g, node)
      [] node.kind = "Intermediate" -> IntermediateGenerate(g, node)
      [] node.kind = "NamedBlock"   -> NamedBlockGenerate(g, node)
      [] node.kind = "Apply"        -> ApplyGenerate(g, node)
      [] node.kind = "Include"      -> IncludeGenerate(g, node)
      [] node.kind = "Extends"      -> [g EXCEPT !.L = Raise(@, Exc("NotImplementedError"))]

\* _ChunkList.generate
GenChunks(g, chunks) ==
    IF g.L.exc # NoExc \/ chunks = <<>> THEN g
    ELSE GenChunks(GenNode(g, Head(chunks)), Tail(chunks))

\* FileEpilogue with the inline_callbacks flag read as always set
FileEpilogueAlwaysAsync(g) ==
    WriteLine(Dedent(WriteLine(g, "returnValue", NoStr)), "inlineCallbacks", NoStr)

\* _File.generate after self.body.generate(writer) (lines 119-128)
FileEpilogue(g) ==
    IF g.inline_callbacks
    THEN WriteLine(Dedent(WriteLine(g, "returnValue", NoStr)), "inlineCallbacks", NoStr)
    ELSE Dedent(WriteLine(g, "return", NoStr))

\* _File.generate
FileGenerate(g, body) ==
    FileEpilogue(GenChunks(WriteLine(Indent(WriteLine(g, "def_execute", NoStr)),
                                     "buffer", NoStr),
                           body))

\* find_named_blocks of each ancestor in turn
RECURSIVE BlocksOfAll(_, _)
BlocksOfAll(S, fs) ==
    IF fs = <<>> THEN S ELSE BlocksOfAll(FindNamedBlocks(S, Head(fs)), Tail(fs))

\* _generate_python: the writer, and ancestors[0].generate(writer)
GenerateRoot(S, root, cw) ==
    IF S.L.exc # NoExc THEN CodeWriter(S.nb, S.L, cw)
    ELSE FileGenerate(CodeWriter(S.nb, S.L, cw), root)

\* _generate_python: ancestors.reverse(), then the named blocks of each ancestor
\* and of self.file
GenerateFrom(a, file, cw) ==
    GenerateRoot(BlocksOfAll([L |-> a.L, nb |-> <<>>], Reverse(a.anc) \o <<file>>),
                 a.anc[Len(a.anc)], cw)

\* Template._generate_python(loader, compress_whitespace): the writer at the end
GeneratePython(L, file, name, cw) == GenerateFrom(GetAncestors(L, file, name), file, cw)

\* Template.__init__: compile(self.code, self.name, "exec") of the code of writer g
TemplateCompile(g, body, name) ==
    IF g.L.exc # NoExc THEN g.L
    ELSE IF ~CompileOk(g.lines) THEN Raise(g.L, Exc("SyntaxError"))
    ELSE [g.L EXCEPT !.nextId = @ + 1,
                     !.ret = [id |-> g.L.nextId, name |-> name,
                              file |-> body, code |-> g.lines]]

\* Template.__init__ after _parse returned body: generate, compile
TemplateBuild(L, body, name) ==
    TemplateCompile(GeneratePython(L, body, name, CompressDefault(name)), body, name)

\* Template.__init__ after _parse ended in p
TemplateParsed(L, p, name) ==
    IF p.status = "error" THEN Raise(L, ParseExc(p.err))
    ELSE TemplateBuild(L, ParsedBody(p), name)

\* Template(template_string, name, loader): L.ret is the object, or L.exc is raised
TemplateInit(L, text, name) == TemplateParsed(L, ParseAll(text, name, ParseInit), name)

\* LoadStore storing whatever the construction left, raised or not
LoadStoreAlways(L2, name, depth) ==
    [L2 EXCEPT !.depth = depth, !.templates = (name :> L2.ret) @@ @]

\* Loader.load: self.templates[name] = Template(...) returned L2 at depth `depth`
LoadStore(L2, name, depth) ==
    IF L2.exc # NoExc THEN [L2 EXCEPT !.depth = depth]
    ELSE [L2 EXCEPT !.depth = depth, !.templates = (name :> L2.ret) @@ @]

\* Loader.load: the cache miss (lines 102-105)
LoadMiss(L, name, path) ==
    IF AbsPath(path) \notin DOMAIN L.files
    THEN Raise([L EXCEPT !.opened = Append(@, path)], Exc("IOError"))
    ELSE IF L.depth >= MaxCallDepth
    THEN Raise([L EXCEPT !.opened = Append(@, path)], Exc("RuntimeError"))
    ELSE LoadStore(TemplateInit([L EXCEPT !.opened = Append(@, path), !.depth = @ + 1],
                                L.files[AbsPath(path)], name),
                   name, L.depth)

\* LoadResolved without the lookup in self.templates
LoadResolvedNoCache(L, name) == LoadMiss(L, name, PathJoin(Root, name))

\* Loader.load with the resolved name
LoadResolved(L, name) ==
    IF name \in DOMAIN L.templates
    THEN [L EXCEPT !.ret = L.templates[name]]
    ELSE LoadMiss(L, name, PathJoin(Root, name))

\* Loader.load(name, parent_path)
LoadOp(L, name, parent_path) == LoadResolved(L, ResolveName(Root, name, parent_path))

\* The compiled procedure is wrapped by defer.inlineCallbacks
IsAsync(code) == \E i \in 1..Len(code) : code[i].op = "inlineCallbacks"

(***************************************************************************)
(* Running the compiled code: exec self.compiled in namespace; _execute()  *)
(***************************************************************************)
\* The code has no control statement: it runs every line once, in order
StraightLine(code) == \A i \in 1..Len(code) : code[i].op # "ctl"

\* A name bound in the namespace: a plain value, a Deferred that fires with val,
\* or a Deferred that fails
Plain(val)    == [deferred |-> FALSE, fails |-> FALSE, val |-> val]
Deferred(val) == [deferred |-> TRUE, fails |-> FALSE, val |-> val]
Failing       == [deferred |-> TRUE, fails |-> TRUE, val |-> NoStr]

\* The name a template expression reads ("x", or the x of "yield x")
VarOf(expression) ==
    IF PartitionHead(expression) = W_yield THEN Strip(PartitionTail(expression))
    ELSE expression

\* Evaluating the expression raises NameError
Unbound(expression, ns) == VarOf(expression) \notin DOMAIN ns

\* "_tmp = yield x" where x is a Deferred that fails: inlineCallbacks throws the
\* failure into _execute at the yield
YieldFails(line, ns) == IsYieldLine(line) /\ ns[VarOf(line.arg)].fails

\* str(_tmp) for "_tmp = x"; for "_tmp = yield x" the value inlineCallbacks
\* sends back: the result of the Deferred, or x itself when x is no Deferred
Eval(expression, ns) ==
    LET b == ns[VarOf(expression)]
    IN  IF b.deferred /\ PartitionHead(expression) # W_yield
        THEN <<"<", "D", ">">>
        ELSE b.val

\* method(s) of {% apply method %}: an uninterpreted function of the host
ApplyMethod(method, s) == method \o <<"(">> \o s \o <<")">>

Running(buf)   == [exc |-> NoExc, buf |-> buf]
Failed(type)   == [exc |-> Exc(type), buf |-> NoStr]

\* Run lines i.. of a function body from buffer buf to its return: the joined
\* buffer, or the exception an expression raised
RECURSIVE RunBody(_, _, _, _)

\* "_buffer.append(method(applyN()))" at line call, applyN() having run to inner
RunApplied(code, inner, call, buf, ns) ==
    IF inner.exc # NoExc THEN inner
    ELSE RunBody(code, call + 1, buf \o ApplyMethod(code[call].arg, inner.buf), ns)

RunBody(code, i, buf, ns) ==
    LET line == code[i]
    IN  CASE line.op \in {"return", "returnValue"} -> Running(buf)
          [] line.op = "append" -> RunBody(code, i + 1, buf \o line.arg, ns)
          [] line.op = "tmp" ->
                 IF Unbound(line.arg, ns) THEN Failed("NameError")
                 ELSE IF YieldFails(line, ns) THEN Failed("Failure")
                 ELSE RunBody(code, i + 2, buf \o Eval(line.arg, ns), ns)
          [] line.op = "def_apply" ->
                 RunApplied(code, RunBody(code, i + 1, NoStr, ns), DefEnd(code, i) + 1,
                            buf, ns)
          [] OTHER -> RunBody(code, i + 1, buf, ns)

\* _execute() run to its end, every yielded Deferred firing at once
RunAlone(code, ns) == RunBody(code, 2, NoStr, ns)

\* Where _execute() stands: it returned buf, raised exc, or waits at line pc for
\* the Deferred await that it yielded
Returned(buf) ==
    [state |-> "fired", pc |-> 0, buf |-> buf, exc |-> NoExc, await |-> Plain(NoStr)]
Raised(type) ==
    [state |-> "failed", pc |-> 0, buf |-> NoStr, exc |-> Exc(type), await |-> Plain(NoStr)]
Waiting(i, buf, d) ==
    [state |-> "waiting", pc |-> i, buf |-> buf, exc |-> NoExc, await |-> d]

\* _execute run on without waiting for what it yields
SuspendsNever(line, ns) == FALSE

\* inlineCallbacks returns to its caller when _execute yields a Deferred; any
\* other value yielded is sent back at once
Suspends(line, ns) == IsYieldLine(line) /\ ns[VarOf(line.arg)].deferred

\* Run lines i.. of _execute under inlineCallbacks until it returns, raises, or
\* yields a Deferred
RECURSIVE RunTo(_, _, _, _)

\* "_buffer.append(method(applyN()))" at line call, applyN() having run to inner
RunToApplied(code, inner, call, buf, ns) ==
    IF inner.exc # NoExc THEN Raised(inner.exc.type)
    ELSE RunTo(code, call + 1, buf \o ApplyMethod(code[call].arg, inner.buf), ns)

RunTo(code, i, buf, ns) ==
    LET line == code[i]
    IN  CASE line.op \in {"return", "returnValue"} -> Returned(buf)
          [] line.op = "append" -> RunTo(code, i + 1, buf \o line.arg, ns)
          [] line.op = "tmp" ->
                 IF Unbound(line.arg, ns) THEN Raised("NameError")
                 ELSE IF Suspends(line, ns)
                 THEN Waiting(i, buf, ns[VarOf(line.arg)])
                 ELSE RunTo(code, i + 2, buf \o Eval(line.arg, ns), ns)
          [] line.op = "def_apply" ->
                 RunToApplied(code, RunBody(code, i + 1, NoStr, ns), DefEnd(code, i) + 1,
                              buf, ns)
          [] OTHER -> RunTo(code, i + 1, buf, ns)

\* str(None)
NoneStr == <<"N", "o", "n", "e">>

\* _log_error that logs and returns nothing
LogErrorReturnsNone(failure) == NoExc

\* Template._log_error(_): logs the code of the template and returns the failure
LogError(failure) == failure

\* The namespace shared by every call: the one the latest call built
RenderNamespaceShared(rs, i) == rs[Len(rs)].ns

\* The globals of the _execute of call i: the namespace its generate() built
RenderNamespace(rs, i) == rs[i].ns


\* Template.generate: the namespace of one call
Builtin == Plain(<<"<", "o", "b", "j", ">">>)

Namespace(kwargs) ==
    kwargs @@ (<<"e", "s", "c", "a", "p", "e">> :> Builtin)
           @@ (<<"u", "r", "l", "_", "e", "s", "c", "a", "p", "e">> :> Builtin)
           @@ (<<"j", "s", "o", "n", "_", "e", "n", "c", "o", "d", "e">> :> Builtin)
           @@ (<<"s", "q", "u", "e", "e", "z", "e">> :> Builtin)
           @@ (<<"d", "a", "t", "e", "t", "i", "m", "e">> :> Builtin)
           @@ (<<"d", "e", "f", "e", "r">> :> Builtin)

(***************************************************************************)
(* Template sources                                                        *)
(***************************************************************************)
MaxDepth  == 2   \* open blocks around the directive under test
MaxTokens == 5   \* directives of a source made of block, apply, if, yield, end
MaxText   == 4   \* characters of a source written character by character

Tag(w) == <<"{", "%">> \o w \o <<"%", "}">>

T_apply   == Tag(W_apply \o <<" ", "f">>)
T_block   == Tag(W_block \o <<" ", "t">>)
T_if      == Tag(W_if \o <<" ", "c">>)
T_for     == Tag(W_for \o <<" ", "c">>)
T_while   == Tag(W_while \o <<" ", "c">>)
T_try     == Tag(W_try)
T_else    == Tag(W_else)
T_elif    == Tag(W_elif \o <<" ", "c">>)
T_except  == Tag(W_except)
T_finally == Tag(W_finally)
T_end     == Tag(W_end)
T_yield   == Tag(W_yield \o <<" ", "x">>)
T_expr    == <<"{", "{", "x", "}", "}">>
T_text    == <<"A">>

RECURSIVE Concat(_)
Concat(seqs) == IF seqs = <<>> THEN <<>> ELSE Head(seqs) \o Concat(Tail(seqs))

SeqsUpTo(S, n) == UNION {[1..k -> S] : k \in 0..n}

Repeat(tok, n) == Concat([i \in 1..n |-> tok])

Openers == {T_apply, T_block, T_if, T_for, T_while, T_try}
Probes  == {NoStr, T_yield, T_else, T_elif, T_except, T_finally, T_end, T_expr, T_text}

\* Up to MaxDepth open blocks, one directive inside them, some of their ends
NestSources ==
    UNION {UNION {{Concat(os) \o p \o Repeat(T_end, j) : j \in 0..Len(os)} : p \in Probes}
           : os \in SeqsUpTo(Openers, MaxDepth)}

\* Every sequence of up to MaxTokens of these directives
TokenSources ==
    {Concat(ts) : ts \in SeqsUpTo({T_block, T_apply, T_if, T_yield, T_end}, MaxTokens)}

\* Every text of up to MaxText of these characters
TextSources == SeqsUpTo({"{", "%", "}", " ", "\n", "a"}, MaxText)

\* An apply block around blocks, text and yields, with a block or a yield
\* before and after it, or inside a block
AroundApply == {NoStr, T_yield, T_block \o T_yield \o T_end, T_block \o T_end}
InsideApply ==
    {NoStr, T_text, T_yield, T_if \o T_yield \o T_end, T_block \o T_end,
     T_block \o T_text \o T_end, T_block \o T_yield \o T_end}
ApplySources ==
    {pre \o T_apply \o inner \o T_end \o post :
        pre \in AroundApply \cup {T_block}, inner \in InsideApply,
        post \in AroundApply \cup {T_end}}

Sources == NestSources \cup TokenSources \cup TextSources \cup ApplySources

NameString == <<"<", "s", "t", "r", "i", "n", "g", ">">>
TemplateNames == {NameString, <<"t", ".", "j", "s">>}

One == <<"1">>
Two == <<"2">>
VarX == <<"x">>

(***************************************************************************)
(* Spec: Template(template_string, name) without a loader, then generate() *)
(***************************************************************************)
NoTpl == [state |-> "none", exc |-> NoExc, t |-> NoTemplate]
NoOut == [state |-> "none", exc |-> NoExc, val |-> NoStr]

\* What a Loader.load call did: its arguments, the resolved name, whether the
\* cache held it, the exception raised or the Template returned, the paths opened
NoLoad ==
    [called |-> FALSE, name |-> NoStr, parent |-> NoStr, resolved |-> NoStr, hit |-> FALSE,
     exc |-> NoExc, ret |-> NoTemplate, opened |-> <<>>]

LoaderIdle ==
    /\ files = <<>>
    /\ templates = <<>>
    /\ lastLoad = NoLoad
    /\ nextId = 1

RenderIdle ==
    /\ renders = <<>>
    /\ rcode = <<>>

\* No call of the utilities outside the template engine
ParamsIdle == np = [state |-> "none"]
PoolIdle   == pool = [state |-> "none"]
SearchIdle == sp = [state |-> "none"]
RpcIdle    == rpc = [state |-> "none"]
OtherIdle  == ParamsIdle /\ PoolIdle /\ SearchIdle /\ RpcIdle

Init ==
    /\ src \in Sources
    /\ tname \in TemplateNames
    /\ ps = ParseInit
    /\ tpl = NoTpl
    /\ out = NoOut
    /\ LoaderIdle
    /\ RenderIdle
    /\ OtherIdle

\* One iteration of the loop of _parse (Template.__init__, line 50)
ParseLoop ==
    /\ ps.status = "run"
    /\ ps' = ParseStep(src, tname, ps)
    /\ UNCHANGED <<src, tname, tpl, out, loaderVars, renderVars, otherVars>>

\* _parse raised: Template.__init__ raises the ParseError
InitRaises ==
    /\ ps.status = "error"
    /\ tpl.state = "none"
    /\ tpl' = [state |-> "raised", exc |-> ParseExc(ps.err), t |-> NoTemplate]
    /\ UNCHANGED <<src, tname, ps, out, loaderVars, renderVars, otherVars>>

\* What the caller of Template(...) gets: the object, or the exception
Constructed(L) ==
    IF L.exc # NoExc
    THEN [state |-> "raised", exc |-> L.exc, t |-> NoTemplate]
    ELSE [state |-> "ok", exc |-> NoExc, t |-> L.ret]

\* _parse returned: Template.__init__ generates and compiles (lines 50-57)
InitBuilds ==
    /\ ps.status = "ok"
    /\ tpl.state = "none"
    /\ tpl' = Constructed(TemplateBuild(NoLoader, ParsedBody(ps), tname))
    /\ UNCHANGED <<src, tname, ps, out, loaderVars, renderVars, otherVars>>

\* The Deferred of maybeDeferred(execute) with the callbacks (defer.passthru,
\* self._log_error): a failure the errback returns keeps the Deferred failed,
\* any other value makes it fire with that value
DeferredOf(r) ==
    IF r.exc = NoExc THEN [state |-> "fired", exc |-> NoExc, val |-> r.buf]
    ELSE IF LogError(r.exc) = NoExc
    THEN [state |-> "fired", exc |-> NoExc, val |-> NoneStr]
    ELSE [state |-> "failed", exc |-> LogError(r.exc), val |-> NoStr]

KwargsSet == {<<>>, VarX :> Plain(One)}

\* Template.generate(**kwargs) of a template whose code has no control statement
Generate(kwargs) ==
    /\ tpl.state = "ok"
    /\ out.state = "none"
    /\ StraightLine(tpl.t.code)
    /\ out' = DeferredOf(RunAlone(tpl.t.code, Namespace(kwargs)))
    /\ UNCHANGED <<src, tname, ps, tpl, loaderVars, renderVars, otherVars>>

Next ==
    \/ ParseLoop
    \/ InitRaises
    \/ InitBuilds
    \/ \E kwargs \in KwargsSet : Generate(kwargs)

Spec == Init /\ [][Next]_vars

\* Template.__init__ runs the loop of _parse until it returns or raises: weak
\* fairness of ParseLoop, WF_vars(ParseLoop), written out with the guard of
\* ParseLoop for ENABLED <<ParseLoop>>_vars (a turn of the loop always changes ps,
\* see ParseTurns)
SpecFair == Spec /\ ([]<>(ps.status # "run") \/ []<><<ParseLoop>>_vars)


(***************************************************************************)
(* SpecLoader: a Loader over a small file system, load() and generate()    *)
(***************************************************************************)
NameA   == <<"a">>
NameB   == <<"b">>
NameDC  == <<"d", "/", "c">>
NameUpX == <<".", ".", "/", "x">>
NameAbsX == <<"/", "x">>
NameSibling == <<".", ".", "/", "r", "2", "/", "a">>  \* a parent_path
NameMissing == <<"n">>
NameE   == <<"e">>
NameG   == <<"g">>

\* What a template file may hold; other is the name of the other file
F_text          == <<"A">>
F_parent        == T_block \o <<"P">> \o T_end \o Tag(W_block \o <<" ", "u">>) \o <<"Q">> \o T_end
F_child(other)  == Tag(W_extends \o <<" ", "\"">> \o other \o <<"\"">>) \o T_block \o <<"C">> \o T_end
F_include(other) == <<"I">> \o Tag(W_include \o <<" ">> \o other)
F_apply(other)  == T_apply \o Tag(W_include \o <<" ">> \o other) \o T_end
F_bad           == T_end

\* A second extends directive, and one that stands after a block
F_extends_twice(other) == Tag(W_extends \o <<" ">> \o other) \o F_child(other)
F_extends_late(other)  == T_block \o <<"C">> \o T_end \o Tag(W_extends \o <<" ">> \o other)

FileDC == Tag(W_extends \o <<" ", ".", ".", "/", "a">>) \o T_block \o <<"D">> \o T_end

\* The contents of /r/a and /r/b
FilePairs ==
    { <<F_text, F_parent>>,
      <<F_parent, F_child(NameA)>>,
      <<F_child(NameB), F_parent>>,
      <<F_child(NameB), F_child(NameA)>>,
      <<F_include(NameB), F_text>>,
      <<F_include(NameB), T_yield>>,
      <<F_apply(NameB), T_yield>>,
      <<F_include(NameB), F_parent>>,
      <<F_include(NameB), F_include(NameA)>>,
      <<F_bad, F_include(NameA)>>,
      <<F_include(NameB), F_include(NameE)>>,
      <<F_include(NameB), F_include(NameG)>>,
      <<F_include(NameB) \o T_block \o T_end, T_block \o T_yield \o T_end>>,
      <<F_extends_twice(NameB), F_parent>>,
      <<F_extends_late(NameB), F_parent>> }

\* /r/a and /r/b vary; /r/d/c extends ../a; /r/e yields and /r/g is text; /x lies
\* outside the root and /r2/a in a sibling directory whose path starts with the
\* root's
FileSystems ==
    { (Root \o <<"/", "a">> :> f[1]) @@ (Root \o <<"/", "b">> :> f[2])
      @@ (Root \o <<"/", "d", "/", "c">> :> FileDC)
      @@ (Root \o <<"/", "e">> :> T_yield)
      @@ (Root \o <<"/", "g">> :> F_text)
      @@ (<<"/", "x">> :> <<"X">>)
      @@ (<<"/", "r", "2", "/", "a">> :> <<"S">>)
      : f \in FilePairs }

\* The calls made: <<name, parent_path>>
LoadCalls ==
    { <<NameA, NoStr>>, <<NameB, NoStr>>, <<NameDC, NoStr>>, <<NameMissing, NoStr>>,
      <<NameUpX, NoStr>>, <<NameAbsX, NoStr>>, <<NameB, NameSibling>>,
      <<NameA, NameString>>, <<NameB, NameDC>> }

ParseIdle ==
    /\ src = NoStr
    /\ tname = NoStr
    /\ ps = ParseInit
    /\ tpl = NoTpl
    /\ out = NoOut

InitLoader ==
    /\ files \in FileSystems
    /\ templates = <<>>
    /\ lastLoad = NoLoad
    /\ nextId = 1
    /\ ParseIdle
    /\ RenderIdle
    /\ OtherIdle

\* The Loader as a call finds it
LoaderNow ==
    [has |-> TRUE, files |-> files, templates |-> templates, opened |-> <<>>,
     nextId |-> nextId, depth |-> 0, exc |-> NoExc, ret |-> NoTemplate]

\* What the call that ended in L reports
LoadReport(L, name, parent_path) ==
    [called |-> TRUE, name |-> name, parent |-> parent_path,
     resolved |-> ResolveName(Root, name, parent_path),
     hit |-> ResolveName(Root, name, parent_path) \in DOMAIN templates,
     exc |-> L.exc, ret |-> L.ret, opened |-> L.opened]

\* The call ended in L
LoadDone(L, name, parent_path) ==
    /\ templates' = L.templates
    /\ nextId' = L.nextId
    /\ lastLoad' = LoadReport(L, name, parent_path)

\* loader.load(name, parent_path)
Load(name, parent_path) ==
    /\ LoadDone(LoadOp(LoaderNow, name, parent_path), name, parent_path)
    /\ tname' = NoStr
    /\ out' = NoOut
    /\ UNCHANGED <<files, src, ps, tpl, renderVars, otherVars>>

\* loader.load(name).generate(x=1) of a cached template without control statements
GenerateLoaded(name) ==
    /\ name \in DOMAIN templates
    /\ StraightLine(templates[name].code)
    /\ tname' = name
    /\ out' = DeferredOf(RunAlone(templates[name].code, Namespace(VarX :> Plain(One))))
    /\ lastLoad' = NoLoad
    /\ UNCHANGED <<src, ps, tpl, files, templates, nextId, renderVars, otherVars>>

NextLoader ==
    \/ \E call \in LoadCalls : Load(call[1], call[2])
    \/ \E name \in {NameA, NameB, NameDC} : GenerateLoaded(name)

SpecLoader == InitLoader /\ [][NextLoader]_vars

(***************************************************************************)
(* SpecRender: generate() calls of one Template in flight at the same time *)
(***************************************************************************)
MaxRenders == 2   \* generate() calls of the Template

VarY == <<"y">>
VarZ == <<"z">>
T_yield_y == Tag(W_yield \o <<" ", "y">>)
T_expr_z  == <<"{", "{", "z", "}", "}">>

RenderSources ==
    { T_expr_z,
      T_yield,
      T_expr_z \o T_yield \o <<"B">> \o T_yield_y,
      T_yield \o T_expr_z \o T_yield_y \o T_expr_z,
      T_apply \o T_expr_z \o T_end \o T_yield \o T_expr_z }

\* The keyword arguments of a call; its Deferreds have not fired yet
RenderKwargs ==
    { (VarX :> Deferred(<<"1">>)) @@ (VarY :> Deferred(<<"2">>)) @@ (VarZ :> Plain(<<"3">>)),
      (VarX :> Deferred(<<"4">>)) @@ (VarY :> Plain(<<"5">>)) @@ (VarZ :> Plain(<<"6">>)),
      (VarX :> Deferred(<<"7">>)) @@ (VarY :> Deferred(<<"8">>)),
      (VarX :> Deferred(<<"9">>)) @@ (VarY :> Failing) @@ (VarZ :> Plain(<<"0">>)) }

InitRender ==
    /\ rcode \in {TemplateInit(NoLoader, s, NameString).ret.code : s \in RenderSources}
    /\ renders = <<>>
    /\ ParseIdle
    /\ LoaderIdle
    /\ OtherIdle

\* A generate() call: its namespace, where its _execute stands (state, pc, buf,
\* exc, await: the state is that of the Deferred generate() returned), whether
\* _log_error ran, the names of the Deferreds whose firing resumed it, and
\* whether it was resumed while another call was waiting
NewRender(ns) ==
    [ns |-> ns, state |-> "new", pc |-> 0, buf |-> NoStr, exc |-> NoExc,
     await |-> Plain(NoStr), logged |-> FALSE, fired |-> <<>>, overlap |-> FALSE]

\* d.addCallbacks(defer.passthru, self._log_error) on the outcome r of _execute
AddCallbacks(r) ==
    IF r.state # "failed" THEN r
    ELSE IF LogError(r.exc) = NoExc THEN Returned(NoneStr)
    ELSE [r EXCEPT !.exc = LogError(r.exc)]

\* Call i ran on to r
Advance(rs, i, r) ==
    [rs EXCEPT ![i] = [@ EXCEPT !.state = AddCallbacks(r).state, !.pc = r.pc,
                                !.buf = AddCallbacks(r).buf, !.exc = AddCallbacks(r).exc,
                                !.await = r.await, !.logged = (r.state = "failed")]]

\* Call i of rs starts _execute
Started(rs, i) == Advance(rs, i, RunTo(rcode, 2, NoStr, RenderNamespace(rs, i)))

\* template.generate(**kwargs): runs _execute to its first yield of a Deferred
GenerateStart(kwargs) ==
    /\ Len(renders) < MaxRenders
    /\ renders' = Started(Append(renders, NewRender(Namespace(kwargs))), Len(renders) + 1)
    /\ UNCHANGED <<rcode, parseVars, loaderVars, otherVars>>

\* Another call waits for a Deferred
OthersWaiting(i) == \E j \in 1..Len(renders) : j # i /\ renders[j].state = "waiting"

\* The Deferred call i waits for fires: inlineCallbacks sends its result to
\* _execute, which runs on to its next yield of a Deferred
DeferredFired(i) ==
    /\ renders[i].state = "waiting"
    /\ renders' = Advance([renders EXCEPT ![i].overlap = @ \/ OthersWaiting(i),
                                          ![i].fired = Append(@, VarOf(rcode[renders[i].pc].arg))],
                          i,
                          IF renders[i].await.fails THEN Raised("Failure")
                          ELSE RunTo(rcode, renders[i].pc + 2,
                                     renders[i].buf \o renders[i].await.val,
                                     RenderNamespace(renders, i)))
    /\ UNCHANGED <<rcode, parseVars, loaderVars, otherVars>>

NextRender ==
    \/ \E kwargs \in RenderKwargs : GenerateStart(kwargs)
    \/ \E i \in 1..Len(renders) : DeferredFired(i)

SpecRender == InitRender /\ [][NextRender]_vars

(***************************************************************************)
(* SpecParams: oursql.util.named_params(sql, params)                       *)
(***************************************************************************)
MaxSql == 5   \* characters of the sql string

\* \w of PARAM_RE, over the characters the sql strings are made of
IsWord(c) == c \in {"a", "b"}

\* The end of the run of \w characters starting at offset i
RECURSIVE WordEnd(_, _)
WordEnd(s, i) == IF i < Len(s) /\ IsWord(s[i + 1]) THEN WordEnd(s, i + 1) ELSE i

\* PARAM_RE.findall(sql) from offset i: the names of the matches of :(\w+),
\* left to right, without overlap
RECURSIVE FindAll(_, _)
FindAll(s, i) ==
    IF i >= Len(s) THEN <<>>
    ELSE IF s[i + 1] = ":" /\ WordEnd(s, i + 1) > i + 1
    THEN <<Slice(s, i + 1, WordEnd(s, i + 1))>> \o FindAll(s, WordEnd(s, i + 1))
    ELSE FindAll(s, i + 1)

\* s.replace(old, new) from offset i: every occurrence of old, left to right,
\* without overlap
RECURSIVE Replace(_, _, _, _)
Replace(s, old, new, i) ==
    IF i >= Len(s) THEN <<>>
    ELSE IF Slice(s, i, i + Len(old)) = old THEN new \o Replace(s, old, new, i + Len(old))
    ELSE <<s[i + 1]>> \o Replace(s, old, new, i + 1)

\* for name in names: sql = sql.replace(':' + name, '?')
RECURSIVE ReplaceNames(_, _)
ReplaceNames(s, names) ==
    IF names = <<>> THEN s
    ELSE ReplaceNames(Replace(s, <<":">> \o Head(names), <<"?">>, 0), Tail(names))

\* params: a dict (isdict, map), a list or None (map: the value itself)
ParamsDict(map) == [isdict |-> TRUE, map |-> map]
ParamsOther(v)  == [isdict |-> FALSE, map |-> v]

NpReturned(sql, values) ==
    [state |-> "returned", exc |-> "none", sql |-> sql, values |-> values]
NpRaised(type) ==
    [state |-> "raised", exc |-> type, sql |-> NoStr, values |-> ParamsOther(<<>>)]

\* named_params after names = PARAM_RE.findall(sql)
NamedParamsOf(sql, params, names) ==
    IF \E k \in 1..Len(names) : names[k] \notin DOMAIN params.map THEN NpRaised("KeyError")
    ELSE IF Contains(ReplaceNames(sql, names), <<":">>) THEN NpRaised("ValueError")
    ELSE NpReturned(ReplaceNames(sql, names),
                    ParamsOther([k \in 1..Len(names) |-> params.map[names[k]]]))

\* named_params(sql, params)
NamedParams(sql, params) ==
    IF ~Contains(sql, <<":">>) THEN NpReturned(sql, params)
    ELSE IF ~params.isdict THEN NpRaised("TypeError")
    ELSE NamedParamsOf(sql, params, FindAll(sql, 0))

SqlChars == {":", "a", "b", " ", "?"}
SqlStrings == UNION {[1..n -> SqlChars] : n \in 0..MaxSql}

\* The names of up to MaxSql - 1 characters
ParamNames == UNION {[1..n -> {"a", "b"}] : n \in 1..(MaxSql - 1)}

\* A dict with every name, a dict with the name a only, a list, None
ParamsSet ==
    { ParamsDict([n \in ParamNames |-> <<"v">> \o n]),
      ParamsDict(<<"a">> :> <<"1">>),
      ParamsOther(<<"1", "2">>),
      ParamsOther(<<>>) }

InitParams ==
    /\ np \in [state : {"call"}, sql : SqlStrings, params : ParamsSet]
    /\ ParseIdle
    /\ LoaderIdle
    /\ RenderIdle
    /\ PoolIdle
    /\ SearchIdle
    /\ RpcIdle

\* The call returns or raises; np keeps the arguments
NamedParamsCall ==
    /\ np.state = "call"
    /\ np' = [state |-> "done", sql |-> np.sql, params |-> np.params,
              res |-> NamedParams(np.sql, np.params)]
    /\ UNCHANGED <<parseVars, loaderVars, renderVars, pool, sp, rpc>>

NextParams == NamedParamsCall

SpecParams == InitParams /\ [][NextParams]_vars

(***************************************************************************)
(* SpecPool: oursql.pool.ConnectionPool, connect() and disconnect() called *)
(* from the threads of the pool while the clock advances                   *)
(***************************************************************************)
MaxThreads == 2   \* threads that call connect()
MaxTicks   == 2   \* advances of the clock

\* Connections made in all: one thread reconnects once
MaxConns == MaxThreads + 1

Threads == 1..MaxThreads

\* options.pop('max_idle_time', 7*3600)
DefaultMaxIdleTime == 7 * 3600

\* time() when the pool is made: years after the epoch
StartTime == 40 * 365 * 24 * 3600

\* dict.get / dict.pop with a default
DictGet(d, k, default) == IF k \in DOMAIN d THEN d[k] ELSE default

\* d without the key k
DictDel(d, k) == [x \in DOMAIN d \ {k} |-> d[x]]

NoConn == 0
NoCall == [op |-> "none"]

\* ConnectionPool.__init__(**options): the attributes the pool keeps; connections is
\* adbapi's map from thread to connection
ConnectionPoolInit(options) ==
    [state |-> "up",
     options |-> options,
     max_idle_time |-> DictGet(options, "max_idle_time", DefaultMaxIdleTime),
     conn_autoping |-> DictGet(options, "autoping", FALSE),
     conn_last_use_time |-> <<>>,
     connections |-> [t \in Threads |-> NoConn],
     nextConn |-> 1,
     now |-> StartTime,
     ticks |-> 0,
     last |-> NoCall]

\* idle_ping pinging from the limit on
IdlePingAtLimit(p, conn) ==
    [p EXCEPT !.conn_last_use_time = (conn :> p.now) @@ @,
              !.last = [@ EXCEPT !.checked = TRUE,
                                 !.pinged = p.now - DictGet(p.conn_last_use_time, conn, 0)
                                              >= p.max_idle_time]]

\* idle_ping(conn): the last use is always set; ping past max_idle_time
IdlePing(p, conn) ==
    [p EXCEPT !.conn_last_use_time = (conn :> p.now) @@ @,
              !.last = [@ EXCEPT !.checked = TRUE,
                                 !.pinged = p.now - DictGet(p.conn_last_use_time, conn, 0)
                                              > p.max_idle_time]]

\* adbapi.ConnectionPool.connect(self): the connection of the calling thread, made
\* on its first call; last notes the call and what the pool knew of the connection
AdbapiConnect(p, tid) ==
    LET fresh == p.connections[tid] = NoConn
        conn  == IF fresh THEN p.nextConn ELSE p.connections[tid]
    IN  [p EXCEPT !.connections[tid] = conn,
                  !.nextConn = IF fresh THEN @ + 1 ELSE @,
                  !.last = [op |-> "connect", tid |-> tid, conn |-> conn, at |-> p.now,
                            fresh |-> fresh,
                            known |-> conn \in DOMAIN p.conn_last_use_time,
                            prev |-> DictGet(p.conn_last_use_time, conn, 0),
                            checked |-> FALSE, pinged |-> FALSE]]

\* connect() with the idle ping run when autoping is set
ConnectedAutopingEnables(p, conn) ==
    IF p.conn_autoping THEN IdlePing(p, conn) ELSE p

\* connect() after adbapi returned conn (lines 44-46)
Connected(p, conn) ==
    IF ~p.conn_autoping THEN IdlePing(p, conn) ELSE p

\* ConnectionPool.connect() called in thread tid
PoolConnect(p, tid) == Connected(AdbapiConnect(p, tid), AdbapiConnect(p, tid).last.conn)

\* ConnectionPool.disconnect(conn) for the connection of thread tid
PoolDisconnect(p, tid) ==
    [p EXCEPT !.conn_last_use_time = DictDel(@, p.connections[tid]),
              !.connections[tid] = NoConn,
              !.last = [op |-> "disconnect", tid |-> tid, conn |-> p.connections[tid]]]

\* The options a pool is made with: none, autoping, max_idle_time
PoolOptions ==
    { <<>>, [autoping |-> TRUE], [autoping |-> FALSE],
      [max_idle_time |-> 3600], [autoping |-> TRUE, max_idle_time |-> 3600] }

\* How far the clock advances between calls
TickSizes == {3600, DefaultMaxIdleTime, DefaultMaxIdleTime + 1}

InitPool ==
    /\ pool \in {ConnectionPoolInit(o) : o \in PoolOptions}
    /\ ParseIdle
    /\ LoaderIdle
    /\ RenderIdle
    /\ ParamsIdle
    /\ SearchIdle
    /\ RpcIdle

Connect(tid) ==
    /\ pool.connections[tid] # NoConn \/ pool.nextConn <= MaxConns
    /\ pool' = PoolConnect(pool, tid)
    /\ UNCHANGED <<parseVars, loaderVars, renderVars, np, sp, rpc>>

Disconnect(tid) ==
    /\ pool.connections[tid] # NoConn
    /\ pool' = PoolDisconnect(pool, tid)
    /\ UNCHANGED <<parseVars, loaderVars, renderVars, np, sp, rpc>>

\* time() advances
PoolTick(d) ==
    /\ pool.ticks < MaxTicks
    /\ pool' = [pool EXCEPT !.now = @ + d, !.ticks = @ + 1, !.last = NoCall]
    /\ UNCHANGED <<parseVars, loaderVars, renderVars, np, sp, rpc>>

NextPool ==
    \/ \E tid \in Threads : Connect(tid)
    \/ \E tid \in Threads : Disconnect(tid)
    \/ \E d \in TickSizes : PoolTick(d)

SpecPool == InitPool /\ [][NextPool]_vars

(***************************************************************************)
(* SpecSearch: xapian.SearchPool; the reactor starts and stops, start() and *)
(* close() are called, pool threads run connect() step by step              *)
(***************************************************************************)
\* SearchPool.refresh_interval
RefreshInterval == 60

\* Handlers made in all: one thread gets a second one after a close()
MaxHandlers == MaxThreads + 1

NoHandler == 0

\* thread.get_ident of every thread
ThreadIDShared(t) == 1

\* self.threadID(): thread.get_ident() in thread t
ThreadID(t) == t

\* SearchPool.start()
SearchStart(p) ==
    IF p.running THEN p
    ELSE [p EXCEPT !.shutdownID = "id", !.triggers = @ \cup {"shutdown"}, !.running = TRUE]

\* SearchPool._start(), the startup trigger
SearchStarted(p) == SearchStart([p EXCEPT !.startID = "none"])

\* SearchPool.__init__(index_path, **kwargs) while the reactor is in state
\* `reactor`: callWhenRunning registers _start, or calls it at once when the reactor
\* runs. shutdownID is no attribute of the object until start() sets it ("unset")
SearchPoolInit(kwargs, reactor) ==
    LET p == [state |-> "up",
              refresh_interval |-> DictGet(kwargs, "refresh_interval", RefreshInterval),
              running |-> FALSE,
              startID |-> "id",
              shutdownID |-> "unset",
              triggers |-> {"start"},
              reactor |-> reactor,
              conn_handlers |-> <<>>,
              handlers |-> <<>>,
              th |-> [t \in Threads |-> [pc |-> "idle", handler |-> NoHandler,
                                         conn |-> NoConn, made |-> 0]],
              now |-> StartTime,
              ticks |-> 0,
              exc |-> NoExc,
              last |-> NoCall]
    IN  IF reactor = "running"
        THEN [SearchStarted(p) EXCEPT !.startID = "none", !.triggers = @ \ {"start"}]
        ELSE p

\* ConnectionHandler.connect() of handler h, called in thread t. A handler opens one
\* SearchConnection in its life (close() leaves it out of the map), so the connection
\* is named by the handler that opened it; `since` is the time it was last opened or
\* reopened
HandlerConnect(p, h, t) ==
    IF p.handlers[h].connection = NoConn
    THEN [p EXCEPT !.handlers[h] = [@ EXCEPT !.connection = h, !.last_open = p.now,
                                             !.since = p.now],
                   !.th[t] = [@ EXCEPT !.pc = "idle", !.handler = NoHandler, !.conn = h],
                   !.last = [op |-> "open"]]
    ELSE IF p.now - p.handlers[h].last_open > p.refresh_interval
    THEN [p EXCEPT !.handlers[h] = [@ EXCEPT !.last_time = p.now, !.since = p.now],
                   !.th[t] = [@ EXCEPT !.pc = "idle", !.handler = NoHandler,
                                       !.conn = p.handlers[h].connection],
                   !.last = [op |-> "reopen", at |-> p.now,
                             since |-> p.handlers[h].since]]
    ELSE [p EXCEPT !.th[t] = [@ EXCEPT !.pc = "idle", !.handler = NoHandler,
                                       !.conn = p.handlers[h].connection],
                   !.last = [op |-> "kept"]]

\* A handler nothing has connected: ConnectionHandler.__init__
NewHandler == [connection |-> NoConn, last_open |-> 0, last_time |-> 0, since |-> 0]

\* ConnectionHandler.close() of every handler of the map. A handler that is taken out
\* of the map is reached by nothing any more: what it held is forgotten
HandlersClosed(p) ==
    [p EXCEPT !.handlers = [h \in DOMAIN p.handlers |->
                               IF \E k \in DOMAIN p.conn_handlers : p.conn_handlers[k] = h
                               THEN NewHandler
                               ELSE p.handlers[h]]]

\* SearchPool.finalClose()
FinalClose(p) ==
    [HandlersClosed(p) EXCEPT !.shutdownID = "none", !.running = FALSE,
                              !.conn_handlers = <<>>,
                              !.th = [t \in Threads |-> [@[t] EXCEPT !.conn = NoConn,
                                                                     !.made = 0]]]

\* SearchPool.close() where the object has the attribute shutdownID
SearchCloseFrom(p) ==
    FinalClose([p EXCEPT !.triggers = @ \ ((IF p.shutdownID = "id" THEN {"shutdown"} ELSE {})
                                             \cup (IF p.startID = "id" THEN {"start"} ELSE {})),
                         !.shutdownID = "none",
                         !.startID = "none"])

\* SearchPool.close()
SearchClose(p) ==
    IF p.shutdownID = "unset"
    THEN [p EXCEPT !.exc = Exc("AttributeError"), !.last = [op |-> "close"]]
    ELSE [SearchCloseFrom(p) EXCEPT !.exc = NoExc, !.last = [op |-> "close"]]

\* threadpool.stop() joins the pool threads: no call is under way in them
ThreadsIdle == \A t \in Threads : sp.th[t].pc = "idle"

SearchKwargs == {<<>>}

InitSearch ==
    /\ sp \in {SearchPoolInit(k, r) : k \in SearchKwargs, r \in {"init", "running"}}
    /\ ParseIdle
    /\ LoaderIdle
    /\ RenderIdle
    /\ ParamsIdle
    /\ PoolIdle
    /\ RpcIdle

\* reactor.run(): the startup triggers fire
ReactorRun ==
    /\ sp.reactor = "init"
    /\ sp' = [(IF "start" \in sp.triggers THEN SearchStarted(sp) ELSE sp)
                 EXCEPT !.reactor = "running", !.triggers = @ \ {"start"},
                        !.last = NoCall]
    /\ UNCHANGED <<parseVars, loaderVars, renderVars, np, pool, rpc>>

\* reactor.stop(): the shutdown triggers fire
ReactorStop ==
    /\ sp.reactor = "running"
    /\ ThreadsIdle
    /\ sp' = [(IF "shutdown" \in sp.triggers THEN FinalClose(sp) ELSE sp)
                 EXCEPT !.reactor = "stopped", !.triggers = @ \ {"shutdown"},
                        !.last = NoCall]
    /\ UNCHANGED <<parseVars, loaderVars, renderVars, np, pool, rpc>>

\* pool.start() called by the program
Start ==
    /\ sp.reactor # "stopped"
    /\ sp' = [SearchStart(sp) EXCEPT !.last = NoCall]
    /\ UNCHANGED <<parseVars, loaderVars, renderVars, np, pool, rpc>>

\* pool.close() called by the program
Close ==
    /\ ThreadsIdle
    /\ sp' = SearchClose(sp)
    /\ UNCHANGED <<parseVars, loaderVars, renderVars, np, pool, rpc>>

\* SearchPool.connect() in thread t, lines 71-72
ConnectGet(t) ==
    /\ sp.running
    /\ sp.th[t].pc = "idle"
    /\ sp' = [sp EXCEPT !.th[t].pc = "got",
                        !.th[t].handler = DictGet(sp.conn_handlers, ThreadID(t), NoHandler),
                        !.last = NoCall]
    /\ UNCHANGED <<parseVars, loaderVars, renderVars, np, pool, rpc>>

\* SearchPool.connect() in thread t, lines 73-75
ConnectStore(t) ==
    /\ sp.th[t].pc = "got"
    /\ sp.th[t].handler # NoHandler \/ Len(sp.handlers) < MaxHandlers
    /\ sp' = IF sp.th[t].handler # NoHandler
             THEN [sp EXCEPT !.th[t].pc = "have"]
             ELSE [sp EXCEPT !.handlers = Append(@, NewHandler),
                             !.conn_handlers = (ThreadID(t) :> Len(sp.handlers) + 1) @@ @,
                             !.th[t] = [@ EXCEPT !.pc = "have",
                                                 !.handler = Len(sp.handlers) + 1,
                                                 !.made = @ + 1]]
    /\ UNCHANGED <<parseVars, loaderVars, renderVars, np, pool, rpc>>

\* SearchPool.connect() in thread t, line 76
ConnectReturn(t) ==
    /\ sp.th[t].pc = "have"
    /\ sp' = HandlerConnect(sp, sp.th[t].handler, t)
    /\ UNCHANGED <<parseVars, loaderVars, renderVars, np, pool, rpc>>

\* time.time() advances
SearchTick(d) ==
    /\ sp.ticks < MaxTicks
    /\ sp' = [sp EXCEPT !.now = @ + d, !.ticks = @ + 1, !.last = NoCall]
    /\ UNCHANGED <<parseVars, loaderVars, renderVars, np, pool, rpc>>

NextSearch ==
    \/ ReactorRun
    \/ ReactorStop
    \/ Start
    \/ Close
    \/ \E t \in Threads : ConnectGet(t)
    \/ \E t \in Threads : ConnectStore(t)
    \/ \E t \in Threads : ConnectReturn(t)

\* The pool's life and its threads; the clock stands still here, what the passing of
\* time does to a handler is SpecHandler's
SpecSearch == InitSearch /\ [][NextSearch]_vars

(***************************************************************************)
(* SpecHandler: one thread of a started pool calls connect() again and      *)
(* again while the clock advances                                            *)
(***************************************************************************)
\* the one thread that calls
HandlerThreads == {1}

InitHandler ==
    /\ sp \in {SearchPoolInit(k, "running") :
                  k \in {<<>>, [refresh_interval |-> 1]}}
    /\ ParseIdle
    /\ LoaderIdle
    /\ RenderIdle
    /\ ParamsIdle
    /\ PoolIdle
    /\ RpcIdle

NextHandler ==
    \/ \E t \in HandlerThreads : ConnectGet(t)
    \/ \E t \in HandlerThreads : ConnectStore(t)
    \/ \E t \in HandlerThreads : ConnectReturn(t)
    \/ \E d \in {1, RefreshInterval, RefreshInterval + 1} : SearchTick(d)

SpecHandler == InitHandler /\ [][NextHandler]_vars

(***************************************************************************)
(* SpecRpc: a JsonrpcHandler answers one POST, sent as a raw body or by a   *)
(* JsonrpcProxy call                                                         *)
(***************************************************************************)
\* Python values
PyNone == [t |-> "none"]
PyInt(n) == [t |-> "int", n |-> n]
PyStr(x) == [t |-> "str", s |-> x]
PyList(q) == [t |-> "list", q |-> q]
PyTuple(q) == [t |-> "tuple", q |-> q]
PyDict(d) == [t |-> "dict", d |-> d]

\* str(v)
Digits == <<"0", "1", "2", "3", "4", "5", "6", "7", "8", "9">>
PyStrOf(v) ==
    CASE v.t = "none" -> "None"
      [] v.t = "int" -> Digits[v.n + 1]
      [] v.t = "str" -> v.s
      [] OTHER -> "[]"

\* The JSON value of a Python value: a tuple is written as an array
RECURSIVE ToJson(_)
ToJson(v) ==
    CASE v.t \in {"list", "tuple"} -> PyList([i \in DOMAIN v.q |-> ToJson(v.q[i])])
      [] v.t = "dict" -> PyDict([k \in DOMAIN v.d |-> ToJson(v.d[k])])
      [] OTHER -> v

\* escape.json_encode(v): the text of a JSON value
JsonEncode(v) == [valid |-> TRUE, value |-> ToJson(v)]

\* a body that is no JSON text: escape.json_decode raises ValueError
NotJson == [valid |-> FALSE, value |-> PyNone]

\* A Failure that wraps an exception of the given type and message
Failure(type, msg) == [kind |-> "failure", type |-> type, msg |-> msg]
Success(v) == [kind |-> "value", v |-> v]

\* defer_fail(JsonrpcError(msg)): a Deferred that fails with the error
DeferFail(msg) == Failure("JsonrpcError", msg)

\* The jsonrpc_ methods of the handler that serves:
\*   def jsonrpc_echo(self, x): return x
\*   def jsonrpc_fail(self, msg): raise Exception(msg)
Methods == {"echo", "fail"}

\* mustbe_deferred(function, *args): the outcome of the call as a Deferred
MustbeDeferred(method, args) ==
    IF Len(args) # 1 THEN Failure("TypeError", "takes exactly 2 arguments")
    ELSE IF method = "echo" THEN Success(args[1])
    ELSE Failure("Exception", PyStrOf(args[1]))

\* The try block of post(), lines 21-32: the request is read field by field, jsonid
\* is assigned once method and params were accepted
PostRead(body) ==
    LET req == body.value
        bad(id) == [ok |-> FALSE, jsonid |-> id]
    IN  IF ~body.valid THEN bad(PyNone)
        ELSE IF req.t # "dict" THEN bad(PyNone)
        ELSE IF "method" \notin DOMAIN req.d THEN bad(PyNone)
        ELSE IF req.d["method"].t # "str" THEN bad(PyNone)
        ELSE IF "params" \notin DOMAIN req.d THEN bad(PyNone)
        ELSE IF req.d["params"].t \notin {"list", "tuple"} THEN bad(PyNone)
        ELSE IF "id" \notin DOMAIN req.d THEN bad(PyNone)
        ELSE IF req.d["id"].t \notin {"none", "int", "str"} THEN bad(req.d["id"])
        ELSE [ok |-> TRUE, jsonid |-> req.d["id"], method |-> req.d["method"].s,
              params |-> req.d["params"].q]

\* The else block of post(), lines 35-40
PostDispatch(r) ==
    IF r.method \in Methods
    THEN [d |-> MustbeDeferred(r.method, r.params), called |-> TRUE]
    ELSE [d |-> DeferFail("method not found: " \o r.method), called |-> FALSE]

\* JsonrpcHandler.post(): the Deferred d and the jsonid handed to _cbResult
HandlerPost(body) ==
    LET r == PostRead(body)
    IN  IF r.ok
        THEN [d |-> PostDispatch(r).d, called |-> PostDispatch(r).called,
              jsonid |-> r.jsonid]
        ELSE [d |-> DeferFail("bad request"), called |-> FALSE, jsonid |-> r.jsonid]

\* JsonrpcHandler._cbResult(result, jsonid): the record given to self.finish
CbResultRecord(d, jsonid) ==
    PyDict([result |-> IF d.kind = "failure" THEN PyNone ELSE d.v,
            error |-> IF d.kind = "failure" THEN PyStr(d.msg) ELSE PyNone,
            jsonid |-> jsonid])

\* if error: of __cbResponse, the truth of a Python value
Truthy(v) ==
    CASE v.t = "none" -> FALSE
      [] v.t = "int" -> v.n # 0
      [] v.t = "str" -> v.s # ""
      [] v.t \in {"list", "tuple"} -> v.q # <<>>
      [] OTHER -> TRUE

\* JsonrpcProxy.__cbResponse(response): what the proxy's Deferred fires with
CbResponseOf(body) ==
    LET error == IF ~body.valid THEN PyStr("Invalid response")
                 ELSE IF body.value.d["error"] = PyNone THEN PyNone
                 ELSE body.value.d["error"]
        result == IF body.valid /\ body.value.d["error"] = PyNone
                  THEN body.value.d["result"] ELSE PyNone
    IN  IF Truthy(error) THEN Failure("JsonrpcError", PyStrOf(error)) ELSE Success(result)

\* JsonrpcProxy.__call__(*args) of the proxy for `service`: the payload
ProxyPayload(service, args) ==
    JsonEncode(PyDict([method |-> service, params |-> PyTuple(args),
                       id |-> PyStr("jsonrpc")]))

\* The values a request may hold
RpcValues == {PyNone, PyInt(0), PyInt(5), PyStr(""), PyStr("boom")}
RpcMethods == {PyStr("echo"), PyStr("fail"), PyStr("nosuch"), PyInt(5)}
RpcParams == {PyList(<<>>), PyStr("boom")} \cup {PyList(<<v>>) : v \in RpcValues}
RpcIds == {PyNone, PyInt(5), PyStr("a"), PyList(<<>>)}

\* A request object with some of its three members
RequestOf(m, p, i) ==
    PyDict((IF m = {} THEN <<>> ELSE [k \in {"method"} |-> CHOOSE x \in m : TRUE])
           @@ (IF p = {} THEN <<>> ELSE [k \in {"params"} |-> CHOOSE x \in p : TRUE])
           @@ (IF i = {} THEN <<>> ELSE [k \in {"id"} |-> CHOOSE x \in i : TRUE]))

Optional(S) == {{}} \cup {{x} : x \in S}

Bodies ==
    {NotJson, JsonEncode(PyList(<<>>))}
    \cup {JsonEncode(RequestOf(m, p, i)) :
              m \in Optional(RpcMethods), p \in Optional(RpcParams), i \in Optional(RpcIds)}

NoDeferred == [kind |-> "none"]
RpcNew ==
    [state |-> "up", phase |-> "new", via |-> "none", body |-> NotJson, d |-> NoDeferred,
     called |-> FALSE, jsonid |-> PyNone, finishes |-> 0, response |-> NotJson,
     client |-> NoDeferred]

InitRpc ==
    /\ rpc = RpcNew
    /\ ParseIdle
    /\ LoaderIdle
    /\ RenderIdle
    /\ ParamsIdle
    /\ PoolIdle
    /\ SearchIdle

\* the handler's post() runs on the body of the request
Served(r, body) ==
    [r EXCEPT !.phase = "pending", !.body = body, !.d = HandlerPost(body).d,
              !.called = HandlerPost(body).called, !.jsonid = HandlerPost(body).jsonid]

\* A client POSTs a body: JsonrpcHandler.post()
Post(body) ==
    /\ rpc.phase = "new"
    /\ rpc' = Served([rpc EXCEPT !.via = "post"], body)
    /\ UNCHANGED <<parseVars, loaderVars, renderVars, np, pool, sp>>

\* JsonrpcProxy(endpoint).<service>(*args): the payload is sent
ProxyCall(service, args) ==
    /\ rpc.phase = "new"
    /\ rpc' = [rpc EXCEPT !.phase = "sent", !.via = "proxy",
                          !.body = ProxyPayload(service, args)]
    /\ UNCHANGED <<parseVars, loaderVars, renderVars, np, pool, sp>>

\* The proxy's request arrives: JsonrpcHandler.post()
Serve ==
    /\ rpc.phase = "sent"
    /\ rpc' = Served(rpc, rpc.body)
    /\ UNCHANGED <<parseVars, loaderVars, renderVars, np, pool, sp>>

\* The Deferred of post() fires: _cbResult finishes the request
CbResult ==
    /\ rpc.phase = "pending"
    /\ rpc' = [rpc EXCEPT !.phase = "finished", !.finishes = @ + 1,
                          !.response = JsonEncode(CbResultRecord(rpc.d, rpc.jsonid))]
    /\ UNCHANGED <<parseVars, loaderVars, renderVars, np, pool, sp>>

\* The response reaches the proxy: __cbResponse
CbResponse ==
    /\ rpc.phase = "finished"
    /\ rpc.via = "proxy"
    /\ rpc.client = NoDeferred
    /\ rpc' = [rpc EXCEPT !.client = CbResponseOf(rpc.response)]
    /\ UNCHANGED <<parseVars, loaderVars, renderVars, np, pool, sp>>

ProxyServices == {PyNone, PyStr("echo"), PyStr("fail"), PyStr("nosuch")}
ProxyArgs == {<<>>} \cup {<<v>> : v \in RpcValues}

NextRpc ==
    \/ \E body \in Bodies : Post(body)
    \/ \E service \in ProxyServices, args \in ProxyArgs : ProxyCall(service, args)
    \/ Serve
    \/ CbResult
    \/ CbResponse

SpecRpc == InitRpc /\ [][NextRpc]_vars

(***************************************************************************)
(* Properties of Spec                                                      *)
(***************************************************************************)
TplOk == tpl.state = "ok"

\* A yield outside any apply block, at any depth of if/for/while/try/block bodies
RECURSIVE HasYieldOutsideApply(_)
HasYieldOutsideApply(chunks) ==
    \E i \in 1..Len(chunks) :
        \/ chunks[i].kind = "Yield"
        \/ chunks[i].kind \in {"Control", "NamedBlock"} /\ HasYieldOutsideApply(chunks[i].body)

\* The named blocks of a body in the order they stand in it
RECURSIVE BlockDefs(_)
BlockDefs(chunks) ==
    IF chunks = <<>> THEN <<>>
    ELSE (CASE Head(chunks).kind = "NamedBlock" ->
                   <<Head(chunks)>> \o BlockDefs(Head(chunks).body)
            [] Head(chunks).kind \in {"Apply", "Control"} -> BlockDefs(Head(chunks).body)
            [] OTHER -> <<>>)
         \o BlockDefs(Tail(chunks))

\* The body of the last block of that name
LastDef(defs, name) ==
    defs[CHOOSE i \in 1..Len(defs) :
            defs[i].arg = name /\ \A j \in (i + 1)..Len(defs) : defs[j].arg # name].body

\* A yield that is generated into _execute: reached from the top level through
\* control bodies and named blocks, never through an apply body, each named block
\* standing for the last block of its name (so not a yield that is only in a
\* block body a later block of the same name replaces)
RECURSIVE LiveYield(_, _)
LiveYield(chunks, defs) ==
    \E i \in 1..Len(chunks) :
        \/ chunks[i].kind = "Yield"
        \/ chunks[i].kind = "Control" /\ LiveYield(chunks[i].body, defs)
        \/ chunks[i].kind = "NamedBlock" /\ LiveYield(LastDef(defs, chunks[i].arg), defs)

C2_YieldInsideApplyRejected ==
    \A i \in 1..Len(ps.stack) :
        ps.stack[i].in_block = W_apply =>
            \A j \in i..Len(ps.stack) :
                \A k \in 1..Len(ps.stack[j].chunks) : ps.stack[j].chunks[k].kind # "Yield"

\* C2 witness: a yield in an if block in an apply block was parsed to the end,
\* and the compiler rejected the generated code
C2_Witness ==
    /\ src = T_apply \o T_if \o T_yield \o T_end \o T_end
    /\ ps.status = "ok"
    /\ ParsedBody(ps)[1] = ApplyBlock(<<"f">>, <<ControlBlock(<<"i", "f", " ", "c">>,
                                                         <<YieldBlock(<<"y", "i", "e", "l", "d", " ", "x">>)>>)>>)
    /\ tpl.state = "raised"
    /\ tpl.exc.type = "SyntaxError"

\* The reader has no directive left: _parse is at EOF
AtEOF == ScanCurly(src, ps.pos, 0) = -1

\* C7: when the input ends while a nesting block is open, _parse raises the
\* missing-end ParseError naming the innermost open operator, for each of
\* apply, block, try, if, for, while; no parse returns a tree with a block open
UnterminatedStep ==
    /\ (ps.status = "run" /\ AtEOF /\ Len(ps.stack) > 1) =>
          /\ ps'.status = "error"
          /\ ps'.err = ParseError("Missing end block",
                                  ps.stack[Len(ps.stack)].in_block, NoLine)
          /\ ps.stack[Len(ps.stack)].in_block \in NestingOps
    /\ ps'.status = "ok" => Len(ps'.stack) = 1
    /\ ps.status = "error" => tpl'.state # "ok"

C7_UnterminatedBlock == [][UnterminatedStep]_vars

\* C7 witness: Template.__init__ raised the missing-end ParseError for "while"
C7_Witness ==
    /\ tpl.state = "raised"
    /\ tpl.exc = ParseExc(ParseError("Missing end block", W_while, NoLine))

\* The operator of the block tag the next iteration of _parse reads, or NoStr
\* when the next directive is not a well-formed block tag
NextOperator ==
    IF ps.status # "run" \/ AtEOF THEN NoStr
    ELSE LET at  == ps.pos + ScanCurly(src, ps.pos, 0)
             end == StrFind(src, <<"%", "}">>, at + 2, Len(src))
         IN  IF Slice(src, at, at + 2) # <<"{", "%">> \/ end = -1
                \/ Contains(Slice(src, at + 2, end), <<"\n">>)
             THEN NoStr
             ELSE PartitionHead(Strip(Slice(src, at + 2, end)))

Innermost == ps.stack[Len(ps.stack)].in_block

\* The parents the claim allows an intermediate tag
ParentsByClaim(operator) ==
    IF operator = W_else THEN {W_if, W_for, W_while}
    ELSE IF operator = W_elif THEN {W_if}
    ELSE {W_try}

LastChunk(p) == p.stack[Len(p.stack)].chunks[Len(p.stack[Len(p.stack)].chunks)]

\* C8: an intermediate tag is accepted exactly when the innermost open block is
\* one of its allowed parents; accepted, it is appended to the current body and
\* the nesting is unchanged; otherwise _parse raises (outside any block, or
\* attached to the wrong block)
IntermediateStep ==
    (NextOperator \in IntermediateOps /\ ps' # ps) =>
        IF Innermost \in ParentsByClaim(NextOperator)
        THEN /\ ps'.status = "run"
             /\ Len(ps'.stack) = Len(ps.stack)
             /\ \A i \in 1..(Len(ps.stack) - 1) : ps'.stack[i] = ps.stack[i]
             /\ LastChunk(ps').kind = "Intermediate"
             /\ PartitionHead(LastChunk(ps').arg) = NextOperator
        ELSE /\ ps'.status = "error"
             /\ ps'.err.kind = (IF Innermost = NoStr THEN "outside block"
                                ELSE "cannot be attached")
             /\ ps'.err.what = NextOperator

C8_IntermediateBlocks == [][IntermediateStep]_vars

\* C8 witness: "else" directly inside "try" was rejected
C8_Witness ==
    /\ ps.status = "error"
    /\ ps.err = ParseError("cannot be attached", W_else, NoLine)
    /\ Innermost = W_try

\* The source has no "{{" and no "{%"
NoDirective == ~Contains(src, <<"{", "{">>) /\ ~Contains(src, <<"{", "%">>)

MutualExtends ==
    /\ files[Root \o <<"/", "a">>] = F_child(NameB)
    /\ files[Root \o <<"/", "b">>] = F_child(NameA)

\* C4 as stated: loading a template of a pair that extend each other ends with
\* a CircularInheritance error after each file was read at most once, instead
\* of recursing until the interpreter's limit
C4_CircularInheritanceDetected ==
    (lastLoad.called /\ MutualExtends /\ lastLoad.resolved \in {NameA, NameB}) =>
        /\ lastLoad.exc.type = "CircularInheritance"
        /\ Len(lastLoad.opened) <= 2

\* C4 witness: the load of a, which extends b, which extends a, ended in the
\* RuntimeError of the recursion limit
C4_Witness ==
    /\ lastLoad.called
    /\ MutualExtends
    /\ lastLoad.resolved = NameA
    /\ lastLoad.exc.type = "RuntimeError"
    /\ Len(lastLoad.opened) > 2

\* The path, made absolute, is the root directory or lies below it
InsideRoot(path) == AbsPath(path) = Root \/ StartsWith(AbsPath(path), Root \o Slash)

\* C5 as stated: every path a load opens lies inside the root directory
C5_OpensInsideRoot ==
    \A i \in 1..Len(lastLoad.opened) : InsideRoot(lastLoad.opened[i])

\* C5 witness: load("../x") returned a Template of the file /x
C5_Witness ==
    /\ lastLoad.called
    /\ lastLoad.name = NameUpX
    /\ lastLoad.exc = NoExc
    /\ lastLoad.ret.file = <<Text(<<"X">>)>>
    /\ AbsPath(lastLoad.opened[1]) = <<"/", "x">>

\* The file is text, {% extends %} and blocks of text with distinct names
SimpleFile(file) ==
    /\ \A i \in 1..Len(file) : file[i].kind \in {"Text", "Extends", "NamedBlock"}
    /\ \A i \in 1..Len(file) :
           file[i].kind = "NamedBlock" =>
               \A j \in 1..Len(file[i].body) : file[i].body[j].kind = "Text"
    /\ \A i, j \in 1..Len(file) :
           (file[i].kind = "NamedBlock" /\ file[j].kind = "NamedBlock" /\ i # j)
               => file[i].arg # file[j].arg
    /\ \A i, j \in 1..Len(file) :
           (file[i].kind = "Extends" /\ file[j].kind = "Extends") => i = j

\* The names the template extends, as the loader resolves them
ParentNames(T) ==
    {ResolveName(Root, T.file[i].arg, T.name) : i \in {j \in 1..Len(T.file) : T.file[j].kind = "Extends"}}

\* The template, its parent, its parent's parent, ...: at most fuel + 1 of them
RECURSIVE ChainOf(_, _)
ChainOf(T, fuel) ==
    IF fuel = 0 \/ ParentNames(T) = {} \/ ~(ParentNames(T) \subseteq DOMAIN templates)
    THEN <<T>>
    ELSE <<T>> \o ChainOf(templates[CHOOSE n \in ParentNames(T) : TRUE], fuel - 1)

\* The template inherits from cached ancestors, all of them simple files
Inherits(T) ==
    /\ Len(ChainOf(T, MaxCallDepth)) >= 2
    /\ \A i \in 1..Len(ChainOf(T, MaxCallDepth)) : SimpleFile(ChainOf(T, MaxCallDepth)[i].file)
    /\ ParentNames(ChainOf(T, MaxCallDepth)[Len(ChainOf(T, MaxCallDepth))]) = {}

\* The text of a body of Text nodes
RECURSIVE FlatText(_)
FlatText(body) == IF body = <<>> THEN NoStr ELSE Head(body).arg \o FlatText(Tail(body))

\* The file defines a block of that name
Defines(file, nm) == \E i \in 1..Len(file) : file[i].kind = "NamedBlock" /\ file[i].arg = nm

\* The text of the block nm in the most derived template of the chain defining it
BlockText(chain, nm) ==
    LET k == SetMin({i \in 1..Len(chain) : Defines(chain[i].file, nm)})
        f == chain[k].file
    IN  FlatText(f[CHOOSE i \in 1..Len(f) : f[i].kind = "NamedBlock" /\ f[i].arg = nm].body)

\* The root ancestor's text, each block replaced by its most derived definition
RECURSIVE Inherited(_, _)
Inherited(chain, rest) ==
    IF rest = <<>> THEN NoStr
    ELSE (IF Head(rest).kind = "Text" THEN Head(rest).arg
          ELSE BlockText(chain, Head(rest).arg))
         \o Inherited(chain, Tail(rest))

\* C6: a rendered template that extends cached ancestors renders its root
\* ancestor's text with every block replaced by the body of the most derived
\* template defining a block of that name: the child's body where the child
\* redefines it, the parent's own body where no descendant does
C6_ChildBlockOverrides ==
    (out.state = "fired" /\ tname \in DOMAIN templates /\ Inherits(templates[tname])) =>
        out.val = Inherited(ChainOf(templates[tname], MaxCallDepth),
                            ChainOf(templates[tname], MaxCallDepth)
                                [Len(ChainOf(templates[tname], MaxCallDepth))].file)

\* C6 witness: a, extending b and redefining block t only, rendered its own
\* body of t followed by b's body of u
C6_Witness ==
    /\ out.state = "fired"
    /\ tname = NameA
    /\ Inherits(templates[NameA])
    /\ files[Root \o <<"/", "b">>] = F_parent
    /\ out.val = <<"C", "Q">>

\* A step of Loader.load keeps every cached entry, and a call whose resolved
\* name was cached returns that entry, opens no file and constructs no Template
CacheStep ==
    lastLoad'.called =>
        /\ \A n \in DOMAIN templates :
               n \in DOMAIN templates' /\ templates'[n] = templates[n]
        /\ lastLoad'.resolved \in DOMAIN templates =>
               /\ lastLoad'.exc = NoExc
               /\ lastLoad'.ret = templates[lastLoad'.resolved]
               /\ lastLoad'.opened = <<>>
               /\ nextId' = nextId
               /\ templates' = templates

\* C10: a cache hit returns the identical Template without reading or compiling,
\* and no load removes or replaces a cached entry
C10_CacheIdempotent == [][CacheStep]_vars

\* C10 witness: a load of a cached name returned the cached Template
C10_Witness ==
    /\ lastLoad.called
    /\ lastLoad.hit
    /\ lastLoad.opened = <<>>
    /\ lastLoad.ret # NoTemplate
    /\ lastLoad.ret = templates[lastLoad.resolved]

(***************************************************************************)
(* Properties of SpecRender                                                *)
(***************************************************************************)
\* C3: every generate() call, whatever other calls of the same Template ran in
\* between, ends as its _execute run alone on its own namespace ends: with the
\* same text, or with the same exception
C3_RendersIndependent ==
    \A i \in 1..Len(renders) :
        /\ renders[i].state = "fired" =>
               /\ RunAlone(rcode, renders[i].ns).exc = NoExc
               /\ renders[i].buf = RunAlone(rcode, renders[i].ns).buf
        /\ renders[i].state = "failed" =>
               renders[i].exc = RunAlone(rcode, renders[i].ns).exc

\* C3 witness: two calls with different arguments, each resumed while the other
\* was waiting, have both delivered their text
C3_Witness ==
    /\ Len(renders) = 2
    /\ renders[1].state = "fired" /\ renders[2].state = "fired"
    /\ renders[1].overlap /\ renders[2].overlap
    /\ renders[1].ns # renders[2].ns
    /\ renders[1].buf # renders[2].buf

(***************************************************************************)
(* Properties of SpecLoader: failed loads                                  *)
(***************************************************************************)
\* A step of Loader.load that raises leaves no entry under the resolved name and
\* keeps every entry; the load after a failed load of a name opens its file again
FailedLoadStep ==
    /\ (lastLoad'.called /\ lastLoad'.exc # NoExc) =>
           /\ lastLoad'.ret = NoTemplate
           /\ lastLoad'.resolved \notin DOMAIN templates'
           /\ \A n \in DOMAIN templates :
                  n \in DOMAIN templates' /\ templates'[n] = templates[n]
    /\ (lastLoad.called /\ lastLoad.exc # NoExc
            /\ lastLoad'.called /\ lastLoad'.resolved = lastLoad.resolved) =>
           /\ lastLoad'.opened # <<>>
           /\ lastLoad'.opened[1] = PathJoin(Root, lastLoad.resolved)

\* C11: a load whose read or compilation fails raises and caches nothing under
\* that name, so the next load of the name reads the file again; the entries
\* cached before the failed call stay as they were
C11_FailedLoadNotCached == [][FailedLoadStep]_vars

\* C11 witness: with other templates cached, the load of a, whose source does
\* not parse, raised the ParseError and left no entry for a
C11_Witness ==
    /\ lastLoad.called
    /\ lastLoad.resolved = NameA
    /\ lastLoad.exc.type = "ParseError"
    /\ lastLoad.opened = <<PathJoin(Root, NameA)>>
    /\ DOMAIN templates # {}
    /\ NameA \notin DOMAIN templates

(***************************************************************************)
(* Properties of SpecRender: exceptions                                    *)
(***************************************************************************)
\* The lines of straight-line code that raise under ns: reading an unbound name,
\* or yielding a Deferred that fails
RaisingLines(code, ns) ==
    {k \in 1..Len(code) :
        /\ code[k].op = "tmp"
        /\ Unbound(code[k].arg, ns) \/ YieldFails(code[k], ns)}

\* The exception of the first of them
FirstRaised(code, ns) ==
    IF Unbound(code[SetMin(RaisingLines(code, ns))].arg, ns)
    THEN Exc("NameError") ELSE Exc("Failure")

\* C12: a generate() call whose procedure raises, before or after a yield, never
\* fires its Deferred with a result: the Deferred fails with the exception raised,
\* after _log_error ran; a call whose procedure raises nothing never fails and
\* logs nothing, whatever the other calls of the Template did
C12_RenderErrorFailsDeferred ==
    \A i \in 1..Len(renders) :
        /\ renders[i].state = "fired" => RaisingLines(rcode, renders[i].ns) = {}
        /\ renders[i].state = "failed" =>
               /\ RaisingLines(rcode, renders[i].ns) # {}
               /\ renders[i].exc = FirstRaised(rcode, renders[i].ns)
        /\ renders[i].logged <=> renders[i].state = "failed"

\* C12 witness: a call failed after its first yield resumed, and the call made
\* after it on the same Template delivered its text
C12_Witness ==
    /\ Len(renders) = 2
    /\ renders[1].state = "failed"
    /\ renders[1].fired # <<>>
    /\ renders[1].logged
    /\ renders[2].state = "fired"
    /\ renders[2].fired # <<>>

(***************************************************************************)
(* Properties of SpecRender: when the Deferred of generate() fires         *)
(***************************************************************************)
\* The names of the Deferreds that lines k.. of straight-line code yield, in
\* the order of the lines
RECURSIVE YieldedDeferreds(_, _, _)
YieldedDeferreds(code, ns, k) ==
    IF k > Len(code) THEN <<>>
    ELSE (IF IsYieldLine(code[k]) /\ ~Unbound(code[k].arg, ns)
             /\ ns[VarOf(code[k].arg)].deferred
          THEN <<VarOf(code[k].arg)>> ELSE <<>>)
         \o YieldedDeferreds(code, ns, k + 1)

IsPrefix(s, t) == Len(s) <= Len(t) /\ s = SubSeq(t, 1, Len(s))

\* C13: the Deferred of a generate() call is settled when generate returns if the
\* procedure yields no Deferred (always so for a template without yield); else
\* the call waits only at a yield of a Deferred, for the yielded Deferreds one
\* at a time in the order of the template, and has delivered its text only
\* after all of them fired
C13_FiresAfterYieldedDeferreds ==
    \A i \in 1..Len(renders) :
        /\ renders[i].state # "new"
        /\ ~IsAsync(rcode) => renders[i].state \in {"fired", "failed"}
        /\ YieldedDeferreds(rcode, renders[i].ns, 1) = <<>> =>
               renders[i].state \in {"fired", "failed"}
        /\ IsPrefix(renders[i].fired, YieldedDeferreds(rcode, renders[i].ns, 1))
        /\ renders[i].state = "fired" =>
               renders[i].fired = YieldedDeferreds(rcode, renders[i].ns, 1)
        /\ renders[i].state = "waiting" =>
               /\ IsYieldLine(rcode[renders[i].pc])
               /\ renders[i].await = renders[i].ns[VarOf(rcode[renders[i].pc].arg)]
               /\ renders[i].await.deferred
               /\ IsPrefix(Append(renders[i].fired, VarOf(rcode[renders[i].pc].arg)),
                           YieldedDeferreds(rcode, renders[i].ns, 1))

\* C13 witness: a call delivered its text after the Deferreds x and y, yielded
\* in that order, had fired
C13_Witness ==
    \E i \in 1..Len(renders) :
        /\ renders[i].state = "fired"
        /\ renders[i].fired = <<VarX, VarY>>

(***************************************************************************)
(* Properties of SpecParams                                                *)
(***************************************************************************)
\* The sql from offset i with every match of :(\w+) replaced by one "?" and
\* every other character kept
RECURSIVE Qmark(_, _)
Qmark(s, i) ==
    IF i >= Len(s) THEN <<>>
    ELSE IF s[i + 1] = ":" /\ WordEnd(s, i + 1) > i + 1
    THEN <<"?">> \o Qmark(s, WordEnd(s, i + 1))
    ELSE <<s[i + 1]>> \o Qmark(s, i + 1)

\* The number of "?" in s
RECURSIVE CountQ(_)
CountQ(s) == IF s = <<>> THEN 0 ELSE (IF Head(s) = "?" THEN 1 ELSE 0) + CountQ(Tail(s))

\* C14 as stated: without ":" the arguments come back unchanged; with :name
\* tokens and a dict, what is returned is the sql with each token replaced by
\* one "?" and the values of the tokens in their order, as many as "?" added
C14_NamedToQmark ==
    (np.state = "done" /\ np.res.state = "returned") =>
        IF ~Contains(np.sql, <<":">>)
        THEN np.res.sql = np.sql /\ np.res.values = np.params
        ELSE /\ np.res.sql = Qmark(np.sql, 0)
             /\ np.res.values.map =
                    [k \in 1..Len(FindAll(np.sql, 0)) |-> np.params.map[FindAll(np.sql, 0)[k]]]
             /\ CountQ(np.res.sql) - CountQ(np.sql) = Len(np.res.values.map)

\* C14 witness: ":a:ab" with a dict came back as "??b" with two values
C14_Witness ==
    /\ np.state = "done"
    /\ np.sql = <<":", "a", ":", "a", "b">>
    /\ np.res.state = "returned"
    /\ np.res.sql = <<"?", "?", "b">>
    /\ Len(np.res.values.map) = 2

(***************************************************************************)
(* Properties of Spec: apply blocks                                        *)
(***************************************************************************)
\* The tree with the body of every apply block emptied
RECURSIVE StripApply(_)
StripApply(chunks) ==
    [i \in 1..Len(chunks) |->
        IF chunks[i].kind = "Apply" THEN [chunks[i] EXCEPT !.body = <<>>]
        ELSE IF chunks[i].kind \in {"Control", "NamedBlock"}
        THEN [chunks[i] EXCEPT !.body = StripApply(chunks[i].body)]
        ELSE chunks[i]]

\* The code generated for the template with its apply bodies emptied
StrippedCode ==
    GeneratePython(NoLoader, StripApply(tpl.t.file), tname, CompressDefault(tname)).lines

\* No generated apply function holds a yield
NoYieldInApply(code) ==
    \A i \in 1..Len(code) :
        code[i].op = "def_apply" =>
            \A k \in (i + 1)..DefEnd(code, i) : ~IsYieldLine(code[k])

\* The tree has an apply block with something in it
RECURSIVE HasApplyBody(_)
HasApplyBody(chunks) ==
    \E i \in 1..Len(chunks) :
        \/ chunks[i].kind = "Apply" /\ chunks[i].body # <<>>
        \/ chunks[i].kind \in {"Control", "NamedBlock"} /\ HasApplyBody(chunks[i].body)

\* C15 as stated: in a constructed template no apply function holds a yield, and
\* the template is asynchronous exactly when it is with its apply bodies emptied
C15_ApplyIndependent ==
    TplOk => /\ NoYieldInApply(tpl.t.code)
             /\ IsAsync(tpl.t.code) <=> IsAsync(StrippedCode)

\* C15 witness: a template whose only yield stands inside an apply body was
\* constructed and is asynchronous, and it is synchronous with the apply body
\* emptied
C15_Witness ==
    /\ TplOk
    /\ HasApplyBody(tpl.t.file)
    /\ ~HasYieldOutsideApply(tpl.t.file)
    /\ IsAsync(tpl.t.code)
    /\ ~IsAsync(StrippedCode)

(***************************************************************************)
(* Properties of SpecLoader: includes                                      *)
(***************************************************************************)
\* The include nodes of a body, at any depth
RECURSIVE IncludesIn(_)
IncludesIn(chunks) ==
    IF chunks = <<>> THEN {}
    ELSE (CASE Head(chunks).kind = "Include" -> {Head(chunks)}
            [] Head(chunks).kind \in {"Apply", "Control", "NamedBlock"} ->
                   IncludesIn(Head(chunks).body)
            [] OTHER -> {})
         \cup IncludesIn(Tail(chunks))

\* The name under which the loader keeps the template an include node names
IncludedName(node) == ResolveName(Root, node.arg, node.tn)

\* The cached templates the cached template `name` includes, through chains of at
\* most k includes
RECURSIVE IncludeReach(_, _)
IncludeReach(name, k) ==
    IF k = 0 \/ name \notin DOMAIN templates THEN {}
    ELSE LET direct == {IncludedName(n) : n \in IncludesIn(templates[name].file)}
         IN  direct \cup UNION {IncludeReach(d, k - 1) : d \in direct}

\* A body with each include node replaced by the body of the included template
RECURSIVE ExpandIncludes(_, _)
ExpandIncludes(chunks, k) ==
    IF chunks = <<>> THEN <<>>
    ELSE (CASE Head(chunks).kind = "Include" /\ k > 0
                 /\ IncludedName(Head(chunks)) \in DOMAIN templates ->
                   ExpandIncludes(templates[IncludedName(Head(chunks))].file, k - 1)
            [] Head(chunks).kind \in {"Apply", "Control", "NamedBlock"} ->
                   <<[Head(chunks) EXCEPT !.body = ExpandIncludes(@, k)]>>
            [] OTHER -> <<Head(chunks)>>)
         \o ExpandIncludes(Tail(chunks), k)

\* A yield anywhere in the body
RECURSIVE HasYield(_)
HasYield(chunks) ==
    \E i \in 1..Len(chunks) :
        \/ chunks[i].kind = "Yield"
        \/ chunks[i].kind \in {"Apply", "Control", "NamedBlock"} /\ HasYield(chunks[i].body)

\* The cached templates that include another one and extend none
Includers ==
    {n \in DOMAIN templates :
        /\ IncludesIn(templates[n].file) # {}
        /\ \A i \in 1..Len(templates[n].file) : templates[n].file[i].kind # "Extends"}

Occurrences(s, needle) ==
    Cardinality({i \in 0..(Len(s) - 1) : Slice(s, i, i + Len(needle)) = needle})

\* The opening tags of nesting blocks and the end tags of the source
OpenTags == LET Sum6(f) == f[W_apply] + f[W_block] + f[W_try] + f[W_if] + f[W_for] + f[W_while]
            IN  Sum6([op \in NestingOps |-> Occurrences(src, <<"{", "%">> \o op)])
EndTags  == Occurrences(src, <<"{", "%">> \o W_end)

\* The chunks of the innermost open body
TopChunks(p) == p.stack[Len(p.stack)].chunks

\* body is what the open body held, and the text that stood before the tag if any
GrownByText(body, chunks) ==
    /\ IsPrefix(chunks, body)
    /\ Len(body) <= Len(chunks) + 1
    /\ Len(body) = Len(chunks) + 1 => body[Len(body)].kind = "Text"

\* C17: an end tag closes exactly the innermost open block: the composite node
\* made of what that body gathered since its opening tag is appended to the body
\* around it and every other open block stays open (or the closed apply/block tag
\* had no name, a ParseError); with no block open it raises the unmatched-end
\* ParseError; an opening tag opens one empty body, any other tag leaves the
\* nesting as it is; so a returned tree has no body open and its source has as
\* many opening tags of nesting blocks as end tags
NestingStep ==
    /\ (NextOperator = W_end /\ ps' # ps) =>
          IF Innermost = NoStr
          THEN /\ ps'.status = "error"
               /\ ps'.err.kind = "Extra end block"
               /\ ps'.err.type = "ParseError"
          ELSE \/ /\ ps'.status = "run"
                  /\ Len(ps'.stack) = Len(ps.stack) - 1
                  /\ \A i \in 1..(Len(ps.stack) - 2) : ps'.stack[i] = ps.stack[i]
                  /\ Len(TopChunks(ps')) = Len(ps.stack[Len(ps.stack) - 1].chunks) + 1
                  /\ IsPrefix(ps.stack[Len(ps.stack) - 1].chunks, TopChunks(ps'))
                  /\ LastChunk(ps').kind =
                        (CASE Innermost = W_apply -> "Apply"
                           [] Innermost = W_block -> "NamedBlock"
                           [] OTHER -> "Control")
                  /\ GrownByText(LastChunk(ps').body, TopChunks(ps))
               \/ /\ ps'.status = "error"
                  /\ Innermost \in {W_apply, W_block}
                  /\ ps.stack[Len(ps.stack)].suffix = NoStr
                  /\ ps'.err.kind \in {"apply missing method name", "block missing name"}
    /\ (NextOperator \in NestingOps /\ ps' # ps) =>
          /\ ps'.status = "run"
          /\ Len(ps'.stack) = Len(ps.stack) + 1
          /\ TopChunks(ps') = <<>>
          /\ ps'.stack[Len(ps'.stack)].in_block = NextOperator
          /\ \A i \in 1..(Len(ps.stack) - 1) : ps'.stack[i] = ps.stack[i]
          /\ GrownByText(ps'.stack[Len(ps.stack)].chunks, TopChunks(ps))
    /\ (NextOperator \notin NestingOps \cup {W_end} /\ ps'.status = "run") =>
          /\ Len(ps'.stack) = Len(ps.stack)
          /\ \A i \in 1..(Len(ps.stack) - 1) : ps'.stack[i] = ps.stack[i]
          /\ IsPrefix(TopChunks(ps), TopChunks(ps'))
    /\ ps'.status = "ok" => Len(ps'.stack) = 1 /\ OpenTags = EndTags

C17_EndClosesInnermost == [][NestingStep]_vars

\* C17 witness: a tree was returned in which an if block, itself inside a named
\* block, holds the yield that stood between its opening tag and its end
C17_Witness ==
    /\ ps.status = "ok"
    /\ OpenTags = 2
    /\ ParsedBody(ps)[1].kind = "NamedBlock"
    /\ Len(ParsedBody(ps)[1].body) = 1
    /\ ParsedBody(ps)[1].body[1].kind = "Control"
    /\ Len(ParsedBody(ps)[1].body[1].body) = 1
    /\ ParsedBody(ps)[1].body[1].body[1].kind = "Yield"

(***************************************************************************)
(* Properties of SpecLoader: the place of extends                          *)
(***************************************************************************)
\* The extends directives of a body, at any depth
RECURSIVE ExtendsCount(_)
ExtendsCount(chunks) ==
    IF chunks = <<>> THEN 0
    ELSE (CASE Head(chunks).kind = "Extends" -> 1
            [] Head(chunks).kind \in {"Apply", "Control", "NamedBlock"} ->
                   ExtendsCount(Head(chunks).body)
            [] OTHER -> 0)
         + ExtendsCount(Tail(chunks))

\* An extends directive of the body stands after something that is not text, or
\* inside a block
ExtendsNotFirst(chunks) ==
    \/ \E i \in 1..Len(chunks) :
          /\ chunks[i].kind = "Extends"
          /\ \E j \in 1..(i - 1) : chunks[j].kind # "Text"
    \/ \E i \in 1..Len(chunks) :
          /\ chunks[i].kind \in {"Apply", "Control", "NamedBlock"}
          /\ ExtendsCount(chunks[i].body) > 0

\* C18 as stated: no template with more than one extends directive, or with an
\* extends directive that is not its first top-level content, is constructed
C18_MisplacedExtendsRejected ==
    \A n \in DOMAIN templates :
        /\ ExtendsCount(templates[n].file) <= 1
        /\ ~ExtendsNotFirst(templates[n].file)

\* C18 witness: load("a") returned a template with two extends directives, and
\* its rendering is that of the template it extends with the child's block
C18_Witness ==
    /\ NameA \in DOMAIN templates
    /\ ExtendsCount(templates[NameA].file) = 2
    /\ tname = NameA
    /\ out.state = "fired"
    /\ out.val = <<"C", "Q">>

(***************************************************************************)
(* Properties of Spec: the line number of a ParseError                     *)
(***************************************************************************)
\* C19 as stated: whatever makes _parse fail, it raises a ParseError that carries
\* the line number of the directive
C19_ParseErrorCarriesLine ==
    ps.status = "error" => /\ ps.err.type = "ParseError"
                           /\ ps.err.line # NoLine

\* C19 witness: Template.__init__ raised the ParseError of a "finally" tag outside
\* any block, which has no line number
C19_Witness ==
    /\ ps.status = "error"
    /\ ps.err = ParseError("outside block", W_finally, NoLine)
    /\ tpl.state = "raised"
    /\ tpl.exc = ParseExc(ps.err)

(***************************************************************************)
(* Properties of SpecFair: the parser terminates                           *)
(***************************************************************************)
\* One turn of the loop of _parse: the reader does not go back; a directive takes
\* it at least two characters on; the turn ends the parse or moves the reader;
\* a returned tree leaves nothing to read
ReaderStep ==
    ps' # ps =>
        /\ ps.status = "run"
        /\ ps'.pos >= ps.pos
        /\ ps'.pos <= Len(src)
        /\ ~AtEOF => ps'.pos >= ps.pos + 2
        /\ ps'.status = "run" => ps'.pos > ps.pos
        /\ ps'.status = "ok" => ps'.pos = Len(src)
        /\ ps'.status = "error" => ps'.err.type \in {"ParseError", "ValueError"}

\* While _parse runs, its next turn ends it or moves the reader on
ParseTurns ==
    ps.status = "run" =>
        \/ ParseStep(src, tname, ps).status # "run"
        \/ ParseStep(src, tname, ps).pos > ps.pos

DefaultConnect ==
    /\ pool.last.op = "connect"
    /\ "autoping" \notin DOMAIN pool.options

C25_AutopingEnables ==
    pool.state = "up" /\ pool.last.op = "connect" /\ "autoping" \in DOMAIN pool.options =>
        IF pool.options["autoping"] THEN pool.last.checked ELSE ~pool.last.pinged

\* C25, amended: connect() runs the idle-ping check exactly when the pool was made
\* with autoping=False or without the option, and never pings when it was made
\* with autoping=True
C25_AutopingDisables ==
    pool.state = "up" /\ pool.last.op = "connect" =>
        /\ pool.last.checked <=> ~DictGet(pool.options, "autoping", FALSE)
        /\ DictGet(pool.options, "autoping", FALSE) => ~pool.last.pinged

\* C25 witness: a pool made with autoping=True returned, after the clock had
\* advanced, a connection it had returned before, without the check
C25_Witness ==
    /\ pool.state = "up"
    /\ pool.last.op = "connect"
    /\ DictGet(pool.options, "autoping", FALSE)
    /\ ~pool.last.fresh
    /\ pool.ticks > 0
    /\ ~pool.last.checked


\* The threads that hold a connection: connect() has returned in them since the
\* pool was last closed
Holding == {t \in Threads : sp.th[t].conn # NoConn}

\* A step in which connect() returns in thread t, which held a connection already
RepeatedReturn(t) ==
    /\ sp.th[t].pc = "have"
    /\ sp'.th[t].pc = "idle"
    /\ sp.th[t].conn # NoConn

AffinityState ==
    /\ \A t \in Threads : sp.th[t].made <= 1
    /\ \A t \in Holding :
          /\ ThreadID(t) \in DOMAIN sp.conn_handlers
          /\ sp.handlers[sp.conn_handlers[ThreadID(t)]].connection = sp.th[t].conn
    /\ \A t1, t2 \in Holding : t1 # t2 => sp.th[t1].conn # sp.th[t2].conn
    /\ \A t1, t2 \in Threads :
          (t1 # t2 /\ sp.th[t1].pc = "have" /\ sp.th[t2].pc = "have")
              => sp.th[t1].handler # sp.th[t2].handler

AffinityStep ==
    \A t \in Threads : RepeatedReturn(t) => sp'.th[t].conn = sp.th[t].conn

\* C22: SearchPool.connect() has thread affinity. While the pool is open one handler
\* is made per thread, on the thread's first call; a repeated call in a thread
\* returns the connection the thread already holds; and however the calls of
\* different threads interleave, no two threads hold the same connection or work
\* on the same handler.
C22_ThreadAffinity == []AffinityState /\ [][AffinityStep]_vars

\* every thread holds a connection and the last call was a repeated one
C22_Witness ==
    /\ Holding = Threads
    /\ sp.last.op = "kept"
    /\ \A t \in Threads : sp.th[t].pc = "idle"

\* C23: SearchPool.close() shuts the pool down from any state of its life: called
\* before the reactor has started the pool or after start(), it raises nothing, and
\* after it running is false, no handler holds a connection, the handler map is
\* empty and neither the start nor the shutdown trigger is registered.
C23_CloseFromAnyState ==
    sp.last.op = "close" =>
        /\ sp.exc = NoExc
        /\ ~sp.running
        /\ \A h \in DOMAIN sp.handlers : sp.handlers[h].connection = NoConn
        /\ sp.conn_handlers = <<>>
        /\ sp.triggers = {}

\* C23 witness: close() was called on a pool that start() never ran for; it raised
\* AttributeError and the start trigger is still registered
C23_Witness ==
    /\ sp.last.op = "close"
    /\ sp.exc = Exc("AttributeError")
    /\ sp.shutdownID = "unset"
    /\ sp.triggers = {"start"}

(***************************************************************************)
(* Properties of SpecHandler                                                *)
(***************************************************************************)
\* C26: ConnectionHandler.connect() reopens the connection at most once per
\* refresh_interval: a call that reopens it comes no sooner than refresh_interval
\* after the connection was last opened or reopened.
C26_ReopenOncePerInterval ==
    sp.last.op = "reopen" => sp.last.at - sp.last.since >= sp.refresh_interval

\* C26 witness: with the default interval, connect() reopened the connection one
\* second after reopening it
C26_Witness ==
    /\ sp.last.op = "reopen"
    /\ sp.refresh_interval = RefreshInterval
    /\ sp.last.at - sp.last.since = 1
    /\ sp.last.since > StartTime

(***************************************************************************)
(* Properties of SpecRpc                                                    *)
(***************************************************************************)
\* The request of the body has an "id" member
CarriedId(body) ==
    body.valid /\ body.value.t = "dict" /\ "id" \in DOMAIN body.value.d

\* What _cbResult gave to self.finish
Finished == rpc.response.value.d

\* The answer of post() but for its id: finished once with result, error and jsonid;
\* error is null exactly when the jsonrpc_ method was called and returned; a request
\* that cannot be read gives 'bad request', an unknown method 'method not found', a
\* failing method its message, each with result null
AnswerOf ==
    /\ rpc.finishes = 1
    /\ DOMAIN Finished = {"result", "error", "jsonid"}
    /\ Finished["error"] = PyNone <=> (rpc.called /\ rpc.d.kind = "value")
    /\ Finished["error"] # PyNone => Finished["result"] = PyNone
    /\ ~PostRead(rpc.body).ok => Finished["error"] = PyStr("bad request")
    /\ (PostRead(rpc.body).ok /\ ~rpc.called)
          => Finished["error"] = PyStr("method not found: " \o PostRead(rpc.body).method)
    /\ (rpc.called /\ rpc.d.kind = "failure") => Finished["error"] = PyStr(rpc.d.msg)

\* C24: for every POST body JsonrpcHandler.post finishes the request exactly once with
\* a record of result, error and id; error is null exactly when the method call
\* succeeded, and the id of the record is the id of the request whenever the request
\* carried one.
C24_PostAnswers ==
    rpc.phase = "finished" =>
        /\ AnswerOf
        /\ CarriedId(rpc.body) => Finished["jsonid"] = rpc.body.value.d["id"]

\* C24 witness: the request {"method": "echo", "id": 5} has no params; it is answered
\* 'bad request' with a null id
C24_Witness ==
    /\ rpc.phase = "finished"
    /\ rpc.body = JsonEncode(RequestOf({PyStr("echo")}, {}, {PyInt(5)}))
    /\ Finished["error"] = PyStr("bad request")
    /\ Finished["jsonid"] = PyNone

\* C27: a JsonrpcProxy call served by a JsonrpcHandler round-trips the outcome: when the
\* server method returns v the proxy's Deferred fires with v; when the server method
\* fails, whatever its message, the proxy's Deferred fails with JsonrpcError.
C27_ProxyRoundTrip ==
    (rpc.via = "proxy" /\ rpc.client # NoDeferred /\ rpc.called) =>
        /\ rpc.d.kind = "value" => rpc.client = Success(rpc.d.v)
        /\ rpc.d.kind = "failure" => /\ rpc.client.kind = "failure"
                                     /\ rpc.client.type = "JsonrpcError"

\* C27 witness: the server method raised Exception("") and the proxy's Deferred fired
\* with the result None
C27_Witness ==
    /\ rpc.via = "proxy"
    /\ rpc.called
    /\ rpc.d = Failure("Exception", "")
    /\ rpc.client = Success(PyNone)

====
